---- MODULE Spec2Model ----
(***************************************************************************)
(* Model of the fear-protocol backtest core: the deterministic mock        *)
(* exchange (exchanges/mock.py), the threshold DCA strategy                *)
(* (strategies/fear_greed_dca.py), the strategy registry                   *)
(* (strategies/__init__.py) and the replay engine (backtest/engine.py).    *)
(*                                                                         *)
(* Numbers.  Python Decimal values (28 significant digits) are modelled as *)
(* exact rationals <<n, d>> with d > 0 in lowest terms.  Python floats are *)
(* modelled as the rationals on the grid of multiples of 1/FloatDen:       *)
(* float(x) rounds x to the nearest grid point, so a Decimal quotient such *)
(* as filled_qty loses precision when the engine stores it as a float,     *)
(* while values already on the grid (whole currency amounts) convert       *)
(* exactly.  Dates "YYYY-MM-DD" are modelled by their day number; the      *)
(* lexicographic order of the fixed-width strings is the order of the day  *)
(* numbers.  order_id (a random uuid4) is not part of the model.           *)
(***************************************************************************)
EXTENDS Integers, Sequences, FiniteSets, TLC

\* ------------------------------------------------------------------------
\* Bounds of the model
\* ------------------------------------------------------------------------

\* dates of the input series are the day numbers 1..MaxDate
MaxDate == 3

\* the wall clock reads MaxDate .. MaxDate + ClockSlack
ClockSlack == 1

\* the mock exchange is driven for at most MaxCalls calls in SpecMock
MaxCalls == 3

\* floats are the multiples of 1/FloatDen
FloatDen == 8

\* ------------------------------------------------------------------------
\* Exact rational arithmetic (Decimal)
\* ------------------------------------------------------------------------

Abs(x) == IF x < 0 THEN -x ELSE x

RECURSIVE Gcd(_, _)
Gcd(a, b) == IF b = 0 THEN a ELSE Gcd(b, a % b)

RNorm(n, d) ==
    LET g == Gcd(Abs(n), Abs(d))
        s == IF d < 0 THEN -1 ELSE 1
    IN  <<(s * n) \div g, (s * d) \div g>>

R(n) == <<n, 1>>
Frac(n, d) == RNorm(n, d)

\* least common multiple of two positive denominators
Lcm(a, b) == (a \div Gcd(a, b)) * b

\* sums and comparisons go through the least common denominator and products
\* are reduced crosswise, so that intermediate values stay small
RAdd(x, y) ==
    LET l == Lcm(x[2], y[2])
    IN  RNorm(x[1] * (l \div x[2]) + y[1] * (l \div y[2]), l)
RSub(x, y) ==
    LET l == Lcm(x[2], y[2])
    IN  RNorm(x[1] * (l \div x[2]) - y[1] * (l \div y[2]), l)
RMul(x, y) ==
    LET g1 == Gcd(Abs(x[1]), y[2])
        g2 == Gcd(Abs(y[1]), x[2])
    IN  RNorm((x[1] \div g1) * (y[1] \div g2), (x[2] \div g2) * (y[2] \div g1))
RDiv(x, y) == RNorm(x[1] * y[2], x[2] * y[1])
RLt(x, y) ==
    LET l == Lcm(x[2], y[2])
    IN  x[1] * (l \div x[2]) < y[1] * (l \div y[2])
RLe(x, y) ==
    LET l == Lcm(x[2], y[2])
    IN  x[1] * (l \div x[2]) <= y[1] * (l \div y[2])
RGt(x, y) == RLt(y, x)
RGe(x, y) == RLe(y, x)
RMin(x, y) == IF RLe(x, y) THEN x ELSE y
RMax(x, y) == IF RGe(x, y) THEN x ELSE y
Zero == R(0)
One == R(1)

\* floor of a rational
RFloor(x) == x[1] \div x[2]

\* float(x): nearest multiple of 1/FloatDen, ties to even
ToFloat(x) ==
    LET t == RMul(x, R(FloatDen))
        f == RFloor(t)
        r == RSub(t, R(f))
        up == \/ RGt(r, Frac(1, 2))
              \/ (r = Frac(1, 2) /\ f % 2 = 1)
    IN  Frac(IF up THEN f + 1 ELSE f, FloatDen)

\* 10 ** k
RECURSIVE Pow10(_)
Pow10(k) == IF k = 0 THEN 1 ELSE 10 * Pow10(k - 1)

\* the exponent e with 10 ** (digits - 1) <= n / d * 10 ** e < 10 ** digits,
\* for n > 0, searched from e
RECURSIVE Exponent(_, _, _, _)
Exponent(n, d, digits, e) ==
    LET num == IF e >= 0 THEN n * Pow10(e) ELSE n
        den == IF e >= 0 THEN d ELSE d * Pow10(-e)
    IN  IF num >= Pow10(digits) * den THEN Exponent(n, d, digits, e - 1)
        ELSE IF num < Pow10(digits - 1) * den THEN Exponent(n, d, digits, e + 1)
        ELSE e

\* n / d * 10 ** e rounded to an integer, ROUND_HALF_EVEN
RoundHalfEven(n, d, e) ==
    LET num == IF e >= 0 THEN n * Pow10(e) ELSE n
        den == IF e >= 0 THEN d ELSE d * Pow10(-e)
        f == num \div den
        twice == 2 * (num % den)
    IN  IF twice > den \/ (twice = den /\ f % 2 = 1) THEN f + 1 ELSE f

\* x rounded to the given number of significant digits, ROUND_HALF_EVEN: what
\* the decimal context does to the exact result of an operation
Quantize(x, digits) ==
    IF x[1] = 0 THEN x
    ELSE LET e == Exponent(Abs(x[1]), x[2], digits, 0)
             q == RoundHalfEven(Abs(x[1]), x[2], e)
             signed == IF x[1] < 0 THEN -q ELSE q
         IN  IF e >= 0 THEN RNorm(signed, Pow10(e))
             ELSE RNorm(signed * Pow10(-e), 1)

\* Decimal(str(f)) of a float f: the shortest repr of a float parses back
\* to the same value
DecimalOfStr(f) == f

\* Optional values: None is the empty sequence, Some(x) a singleton
None == <<>>
Some(x) == <<x>>

RECURSIVE RSumSeq(_)
RSumSeq(s) == IF s = <<>> THEN Zero ELSE RAdd(Head(s), RSumSeq(Tail(s)))

\* ------------------------------------------------------------------------
\* The decimal context
\* ------------------------------------------------------------------------

\* decimal.getcontext().prec as Some(digits), or None when the context is
\* wide enough for every result of the run to be exact
VARIABLE prec

\* the result the context gives for an operation whose exact result is x
Ctx(x) ==
    IF prec = None THEN x
    ELSE CHOOSE q \in { Quantize(v, prec[1]) : v \in { x } } : TRUE

\* Decimal +, -, * and / under the context
DAdd(x, y) == Ctx(RAdd(x, y))
DSub(x, y) == Ctx(RSub(x, y))
DMul(x, y) == Ctx(RMul(x, y))
DDiv(x, y) == Ctx(RDiv(x, y))

\* ------------------------------------------------------------------------
\* MockAdapter (exchanges/mock.py)
\* ------------------------------------------------------------------------

\* MockAdapter.__init__
MockAdapterInit(initial_price, fee_rate, slippage_rate, quote_bal, base_bal) ==
    [ price |-> initial_price,
      fee_rate |-> fee_rate,
      slippage_rate |-> slippage_rate,
      quote_balance |-> quote_bal,
      base_balance |-> base_bal ]

\* MockAdapter.set_price
set_price(m, p) == [m EXCEPT !.price = p]

\* MockAdapter.get_balances: Balance.total = free + locked, locked = 0
get_balances(m) ==
    [ USDT |-> RAdd(m.quote_balance, Zero),
      BTC |-> RAdd(m.base_balance, Zero) ]

FailedOrder ==
    [ status |-> "failed", filled_qty |-> Zero, avg_fill_price |-> Zero,
      fee |-> Zero, raw |-> "error: Insufficient balance" ]

\* the order raised instead of returning (Decimal division by zero)
RaisedOrder ==
    [ status |-> "raised", filled_qty |-> Zero, avg_fill_price |-> Zero,
      fee |-> Zero, raw |-> "DivisionByZero" ]

\* slippage applied in the buyer's favour
buy_fill_price_Down(m) == RMul(m.price, RSub(One, m.slippage_rate))

\* the fill price of a buy: slippage applied upwards
buy_fill_price(m) == DMul(m.price, DAdd(One, m.slippage_rate))

\* the fill price of a sell: slippage applied downwards
sell_fill_price(m) == DMul(m.price, DSub(One, m.slippage_rate))

\* market_buy without its balance guard
buy_rejected_Never(m, quote_amount) == FALSE

\* the balance guard of market_buy
buy_rejected(m, quote_amount) == RGt(quote_amount, m.quote_balance)

\* the balance guard of market_sell
sell_rejected(m, base_amount) == RGt(base_amount, m.base_balance)

\* MockAdapter.market_buy: the adapter after the call and the OrderResult
market_buy(m, quote_amount) ==
    IF buy_rejected(m, quote_amount)
    THEN [ m |-> m, fill |-> FailedOrder ]
    ELSE LET fill_price == buy_fill_price(m)
             fee == DMul(quote_amount, m.fee_rate)
             net_quote == DSub(quote_amount, fee)
         IN  IF fill_price = Zero
             THEN [ m |-> m, fill |-> RaisedOrder ]
             ELSE LET filled_qty == DDiv(net_quote, fill_price)
                  IN  [ m |-> [m EXCEPT
                                 !.quote_balance = DSub(@, quote_amount),
                                 !.base_balance = DAdd(@, filled_qty)],
                        fill |-> [ status |-> "filled",
                                   filled_qty |-> filled_qty,
                                   avg_fill_price |-> fill_price,
                                   fee |-> fee,
                                   raw |-> "mock" ] ]

\* market_sell crediting the gross proceeds, the fee not deducted
market_sell_GrossCredit(m, base_amount) ==
    IF sell_rejected(m, base_amount)
    THEN [ m |-> m, fill |-> FailedOrder ]
    ELSE LET fill_price == sell_fill_price(m)
             gross_quote == DMul(base_amount, fill_price)
             fee == DMul(gross_quote, m.fee_rate)
         IN  [ m |-> [m EXCEPT
                        !.base_balance = DSub(@, base_amount),
                        !.quote_balance = DAdd(@, gross_quote)],
               fill |-> [ status |-> "filled",
                          filled_qty |-> base_amount,
                          avg_fill_price |-> fill_price,
                          fee |-> fee,
                          raw |-> "mock" ] ]

\* MockAdapter.market_sell: the adapter after the call and the OrderResult
market_sell(m, base_amount) ==
    IF sell_rejected(m, base_amount)
    THEN [ m |-> m, fill |-> FailedOrder ]
    ELSE LET fill_price == sell_fill_price(m)
             gross_quote == DMul(base_amount, fill_price)
             fee == DMul(gross_quote, m.fee_rate)
             net_quote == DSub(gross_quote, fee)
         IN  [ m |-> [m EXCEPT
                        !.base_balance = DSub(@, base_amount),
                        !.quote_balance = DAdd(@, net_quote)],
               fill |-> [ status |-> "filled",
                          filled_qty |-> base_amount,
                          avg_fill_price |-> fill_price,
                          fee |-> fee,
                          raw |-> "mock" ] ]

\* ------------------------------------------------------------------------
\* Threshold DCA strategy (strategies/fear_greed_dca.py)
\* ------------------------------------------------------------------------

\* program defaults of FearGreedDCAConfig
DefaultBuyThreshold == 20
DefaultSellThreshold == 50
DefaultHoldDays == 120
DefaultDcaAmountUsd == 500
DefaultMaxCapitalUsd == 5000

\* FearGreedDCAConfig()
FearGreedDCAConfig ==
    [ buy_threshold |-> DefaultBuyThreshold,
      sell_threshold |-> DefaultSellThreshold,
      hold_days |-> DefaultHoldDays,
      dca_amount_usd |-> R(DefaultDcaAmountUsd),
      max_capital_usd |-> R(DefaultMaxCapitalUsd) ]

\* FearGreedDCAConfig.validate: TRUE when it returns, FALSE when it raises
validate(cfg) ==
    /\ 0 <= cfg.buy_threshold /\ cfg.buy_threshold <= 100
    /\ 0 <= cfg.sell_threshold /\ cfg.sell_threshold <= 100
    /\ cfg.buy_threshold < cfg.sell_threshold
    /\ cfg.hold_days >= 1
    /\ RGt(cfg.dca_amount_usd, Zero)
    /\ RGt(cfg.max_capital_usd, Zero)

\* FearGreedDCAStrategy.__init__: the instance keeps the config unvalidated
FearGreedDCAStrategy(cfg) == [ name |-> "fear-greed-dca", config |-> cfg ]

\* a parsable ISO timestamp of a position dict
IsoTs(d) == [ kind |-> "iso", day |-> d ]

\* FearGreedDCAStrategy._get_eligible_positions; clock is datetime.now()
_get_eligible_positions(cfg, positions, clock) ==
    SelectSeq(positions,
              LAMBDA pos : /\ pos.status = "open"
                           /\ pos.timestamp.kind = "iso"
                           /\ clock - pos.timestamp.day >= cfg.hold_days)

\* FearGreedDCAStrategy._fear_confidence
_fear_confidence(cfg, fg) ==
    IF cfg.buy_threshold = 0
    THEN One
    ELSE RMax(Frac(1, 2),
              RMin(One, RAdd(Frac(cfg.buy_threshold - fg, cfg.buy_threshold),
                             Frac(1, 2))))

RECURSIVE SumQty(_)
SumQty(ps) == IF ps = <<>> THEN Zero ELSE RAdd(Head(ps).btc_qty, SumQty(Tail(ps)))

Signal(action, confidence, reason, amount, meta) ==
    [ action |-> action, confidence |-> confidence, reason |-> reason,
      suggested_amount |-> amount, metadata |-> meta ]

Meta(fg, reached, eligible) ==
    [ fg |-> fg, max_capital_reached |-> reached, eligible_positions |-> eligible ]

\* evaluate with the capital check off by one: buys while invested <= max
evaluate_CapInclusive(cfg, ctx, clock) ==
    LET fg == ctx.fear_greed
        eligible == _get_eligible_positions(cfg, ctx.open_positions, clock)
    IN  IF fg <= cfg.buy_threshold
        THEN IF RLe(ctx.total_invested, cfg.max_capital_usd)
             THEN Signal("BUY", _fear_confidence(cfg, fg), "extreme fear",
                         cfg.dca_amount_usd, Meta(fg, FALSE, 0))
             ELSE Signal("HOLD", One, "max capital reached",
                         Zero, Meta(fg, TRUE, 0))
        ELSE IF fg >= cfg.sell_threshold /\ eligible # <<>>
             THEN Signal("SELL", Frac(4, 5), "recovery",
                         DecimalOfStr(SumQty(eligible)),
                         Meta(fg, FALSE, Len(eligible)))
             ELSE Signal("HOLD", One, "neutral zone", Zero, Meta(fg, FALSE, 0))

\* FearGreedDCAStrategy.evaluate; clock is the value datetime.now() returns
evaluate(cfg, ctx, clock) ==
    LET fg == ctx.fear_greed
        eligible == _get_eligible_positions(cfg, ctx.open_positions, clock)
    IN  IF fg <= cfg.buy_threshold
        THEN IF RLt(ctx.total_invested, cfg.max_capital_usd)
             THEN Signal("BUY", _fear_confidence(cfg, fg), "extreme fear",
                         cfg.dca_amount_usd, Meta(fg, FALSE, 0))
             ELSE Signal("HOLD", One, "max capital reached",
                         Zero, Meta(fg, TRUE, 0))
        ELSE IF fg >= cfg.sell_threshold /\ eligible # <<>>
             THEN Signal("SELL", Frac(4, 5), "recovery",
                         DecimalOfStr(SumQty(eligible)),
                         Meta(fg, FALSE, Len(eligible)))
             ELSE Signal("HOLD", One, "neutral zone", Zero, Meta(fg, FALSE, 0))

\* A strategy that answers each date from a fixed script, date -> signal: an
\* implementation of AbstractStrategy.evaluate that is a function of the
\* snapshot only
ScriptedSignal(action, amount) ==
    Signal(action, One, "scripted", amount, Meta(0, FALSE, 0))

ScriptedStrategy(script) == [ name |-> "scripted", config |-> script ]

\* ------------------------------------------------------------------------
\* What an evaluate call leaves behind
\* ------------------------------------------------------------------------

\* evaluate returned signal and left the instance as self
Outcome(self, signal) == [ raised |-> FALSE, self |-> self, signal |-> signal ]

\* evaluate raised TypeError out of the eligibility loop, the instance left
\* as self
TypeError(self) ==
    [ raised |-> TRUE, self |-> self,
      signal |-> Signal("NONE", Zero, "TypeError", Zero, [ fg |-> 0 ]) ]

\* pos["timestamp"] of an open position makes the eligibility loop raise an
\* exception that "except (KeyError, ValueError)" does not catch: a value
\* that is not a string (fromisoformat raises TypeError), or an ISO string
\* with a UTC offset (now - entry raises TypeError, now being naive).
\* The other kinds: "iso" a naive ISO string, "missing" no such key
\* (KeyError), "bad" a string that does not parse (ValueError).
TimestampKinds == { "iso", "missing", "bad", "not_str", "aware" }

TypeErrorAt(pos) ==
    pos.status = "open" /\ pos.timestamp.kind \in { "not_str", "aware" }

EligibilityRaises(positions) ==
    \E i \in 1 .. Len(positions) : TypeErrorAt(positions[i])

\* the snapshot with its open positions marked closed
ctx_after_evaluate_ClosesPositions(strat, ctx) ==
    [ ctx EXCEPT !.open_positions =
          [ i \in 1 .. Len(ctx.open_positions) |->
                [ ctx.open_positions[i] EXCEPT !.status = "closed" ] ] ]

\* the snapshot as an evaluate call leaves it: the evaluate methods and
\* their helpers read ctx and the position dicts (ctx.fear_greed,
\* pos.get("status"), pos["timestamp"], p.get("btc_qty", ...)) and assign to
\* none of them
ctx_after_evaluate(strat, ctx) == ctx

\* the calls an evaluate call makes on the fill simulator: a strategy
\* instance holds its config and its own history only, no adapter
adapter_calls_of_evaluate(strat, ctx) == <<>>

\* FearGreedDCAStrategy.evaluate as a call: the outcome with the instance
FearGreedDCA_evaluate(self, ctx, clock) ==
    IF /\ ~(ctx.fear_greed <= self.config.buy_threshold)
       /\ ctx.fear_greed >= self.config.sell_threshold
       /\ EligibilityRaises(ctx.open_positions)
    THEN TypeError(self)
    ELSE Outcome(self, evaluate(self.config, ctx, clock))

\* ------------------------------------------------------------------------
\* Grid DCA strategy (strategies/grid_fear.py)
\* ------------------------------------------------------------------------

\* GridFearConfig()
GridFearConfig ==
    [ fear_threshold |-> 25,
      grid_levels |-> 5,
      grid_spacing_pct |-> R(5),
      base_amount_usd |-> R(200),
      level_multiplier |-> Frac(3, 2),
      max_capital_usd |-> R(5000),
      sell_threshold |-> 50,
      hold_days |-> 90 ]

\* GridFearStrategy.__init__
GridFearStrategy(cfg) ==
    [ name |-> "grid-fear", config |-> cfg, _reference_price |-> None ]

\* the minimum order size of GridFearStrategy.evaluate
GridMinOrder == 10

\* GridFearStrategy._set_reference_if_needed
_set_reference_if_needed(self, ctx) ==
    IF /\ self._reference_price = None
       /\ ctx.fear_greed <= self.config.fear_threshold
    THEN [ self EXCEPT !._reference_price = Some(ctx.price) ]
    ELSE self

\* int(x): truncation toward zero
Trunc(x) == IF x[1] >= 0 THEN x[1] \div x[2] ELSE -((-x[1]) \div x[2])

\* GridFearStrategy._get_grid_level
_get_grid_level(self, current_price) ==
    IF self._reference_price = None
    THEN 0
    ELSE LET ref == self._reference_price[1]
             drop_pct == ToFloat(RMul(RDiv(RSub(ref, current_price), ref),
                                      R(100)))
             level == Trunc(RDiv(drop_pct, self.config.grid_spacing_pct))
         IN  IF level < self.config.grid_levels - 1
             THEN level ELSE self.config.grid_levels - 1

\* x ** n for an integer n of either sign
RECURSIVE RPow(_, _)
RPow(x, n) ==
    IF n = 0 THEN One
    ELSE IF n > 0 THEN RMul(x, RPow(x, n - 1))
    ELSE RDiv(One, RPow(x, -n))

\* GridFearStrategy._level_amount
_level_amount(self, level) ==
    RMul(self.config.base_amount_usd,
         DecimalOfStr(ToFloat(RPow(self.config.level_multiplier, level))))

\* GridFearStrategy._get_eligible_positions; clock is datetime.now()
GridFear_get_eligible_positions(self, positions, clock) ==
    SelectSeq(positions,
              LAMBDA pos : /\ pos.status = "open"
                           /\ pos.timestamp.kind = "iso"
                           /\ clock - pos.timestamp.day >= self.config.hold_days)

\* the recovery and hold branches of the evaluate methods of the Grid and
\* the Momentum strategy, which end the same way: SELL the eligible
\* positions (the instance left as afterSell) or HOLD
SellOrHold(self, afterSell, eligible, ctx, confidence, holdMeta) ==
    IF ctx.fear_greed >= self.config.sell_threshold
    THEN IF EligibilityRaises(ctx.open_positions)
         THEN TypeError(self)
         ELSE IF eligible # <<>>
         THEN Outcome(afterSell,
                      Signal("SELL", confidence, "recovery",
                             DecimalOfStr(SumQty(eligible)),
                             [ fg |-> ctx.fear_greed,
                               eligible_positions |-> Len(eligible) ]))
         ELSE Outcome(self, Signal("HOLD", One, "hold", Zero, holdMeta))
    ELSE Outcome(self, Signal("HOLD", One, "hold", Zero, holdMeta))

\* the level amount handed on without the cap at the remaining capital
CapAtRemaining_Uncapped(amount, remaining) == amount

\* "Cap at remaining capital": amount = min(amount, remaining)
CapAtRemaining(amount, remaining) == RMin(amount, remaining)

\* GridFearStrategy.evaluate; clock is the value datetime.now() returns
GridFear_evaluate(self, ctx, clock) ==
    LET cfg == self.config
        fg == ctx.fear_greed
        inGrid == /\ fg <= cfg.fear_threshold
                  /\ RLt(ctx.total_invested, cfg.max_capital_usd)
        latched == IF inGrid THEN _set_reference_if_needed(self, ctx) ELSE self
        level == _get_grid_level(latched, ctx.price)
        amount == CapAtRemaining(_level_amount(latched, level),
                                 RSub(cfg.max_capital_usd,
                                      ctx.total_invested))
    IN  IF inGrid /\ RGt(amount, R(GridMinOrder))
        THEN Outcome(latched,
                     Signal("BUY",
                            RMin(One, RAdd(Frac(1, 2),
                                           Frac(cfg.fear_threshold - fg, 50))),
                            "grid level", amount,
                            [ fg |-> fg, grid_level |-> level,
                              reference_price |->
                                  ToFloat(latched._reference_price[1]) ]))
        ELSE SellOrHold(latched,
                        [ latched EXCEPT !._reference_price = None ],
                        GridFear_get_eligible_positions(latched,
                                                        ctx.open_positions,
                                                        clock),
                        ctx, Frac(4, 5), [ fg |-> fg ])

\* ------------------------------------------------------------------------
\* Momentum DCA strategy (strategies/momentum_dca.py)
\* ------------------------------------------------------------------------

\* MomentumDCAConfig()
MomentumDCAConfig ==
    [ fear_threshold |-> 30,
      min_consecutive_down |-> 3,
      dca_amount_usd |-> R(500),
      max_capital_usd |-> R(5000),
      hold_days |-> 60,
      sell_threshold |-> 50 ]

\* MomentumDCAStrategy.__init__
MomentumDCAStrategy(cfg) ==
    [ name |-> "momentum-dca", config |-> cfg, _price_history |-> <<>> ]

\* update_price_history keeping min_consecutive_down prices, one too few
update_price_history_KeepN(self, price) ==
    LET h == Append(self._price_history, price)
        max_needed == self.config.min_consecutive_down
    IN  [ self EXCEPT !._price_history =
              IF Len(h) > max_needed
              THEN SubSeq(h, Len(h) - max_needed + 1, Len(h))
              ELSE h ]

\* MomentumDCAStrategy.update_price_history
update_price_history(self, price) ==
    LET h == Append(self._price_history, price)
        max_needed == self.config.min_consecutive_down + 1
    IN  [ self EXCEPT !._price_history =
              IF Len(h) > max_needed
              THEN SubSeq(h, Len(h) - max_needed + 1, Len(h))
              ELSE h ]

\* the loop counting an unchanged price as a down day
RECURSIVE CountDown_NonStrict(_, _)
CountDown_NonStrict(prices, i) ==
    IF i < 2 THEN 0
    ELSE IF RLe(prices[i], prices[i - 1])
         THEN 1 + CountDown_NonStrict(prices, i - 1)
    ELSE 0

\* the loop of _count_consecutive_down, from index i down
RECURSIVE CountDown(_, _)
CountDown(prices, i) ==
    IF i < 2 THEN 0
    ELSE IF RLt(prices[i], prices[i - 1]) THEN 1 + CountDown(prices, i - 1)
    ELSE 0

\* MomentumDCAStrategy._count_consecutive_down
_count_consecutive_down(self) ==
    CountDown(self._price_history, Len(self._price_history))

\* MomentumDCAStrategy._get_eligible_positions; clock is datetime.now()
MomentumDCA_get_eligible_positions(self, positions, clock) ==
    SelectSeq(positions,
              LAMBDA pos : /\ pos.status = "open"
                           /\ pos.timestamp.kind = "iso"
                           /\ clock - pos.timestamp.day >= self.config.hold_days)

\* MomentumDCAStrategy.evaluate; clock is the value datetime.now() returns
MomentumDCA_evaluate(self, ctx, clock) ==
    LET cfg == self.config
        fg == ctx.fear_greed
        updated == update_price_history(self, ctx.price)
        consecutive_down == _count_consecutive_down(updated)
        meta == [ fg |-> fg, consecutive_down |-> consecutive_down ]
    IN  IF /\ fg <= cfg.fear_threshold
           /\ consecutive_down >= cfg.min_consecutive_down
           /\ RLt(ctx.total_invested, cfg.max_capital_usd)
        THEN Outcome(updated,
                     Signal("BUY",
                            RMin(One, RAdd(Frac(1, 2),
                                           Frac(consecutive_down, 10))),
                            "fear and consecutive down days",
                            cfg.dca_amount_usd, meta))
        ELSE SellOrHold(updated, updated,
                        MomentumDCA_get_eligible_positions(updated,
                                                           ctx.open_positions,
                                                           clock),
                        ctx, Frac(3, 4), meta)

\* strategy._get_eligible_positions(ctx) as a call: the list, or raised
\* when the loop meets a timestamp whose exception it does not catch
get_eligible_positions_call(strat, ctx, clock) ==
    IF EligibilityRaises(ctx.open_positions)
    THEN [ raised |-> TRUE, value |-> <<>> ]
    ELSE [ raised |-> FALSE,
           value |-> IF strat.name = "grid-fear"
                     THEN GridFear_get_eligible_positions(
                              strat, ctx.open_positions, clock)
                     ELSE IF strat.name = "momentum-dca"
                     THEN MomentumDCA_get_eligible_positions(
                              strat, ctx.open_positions, clock)
                     ELSE _get_eligible_positions(
                              strat.config, ctx.open_positions, clock) ]

\* self.strategy.evaluate(ctx) as a call: dispatch on the strategy instance
strategy_call(strat, ctx, clock) ==
    IF strat.name = "scripted"
    THEN Outcome(strat, strat.config[ctx.timestamp])
    ELSE IF strat.name = "grid-fear" THEN GridFear_evaluate(strat, ctx, clock)
    ELSE IF strat.name = "momentum-dca"
    THEN MomentumDCA_evaluate(strat, ctx, clock)
    ELSE FearGreedDCA_evaluate(strat, ctx, clock)

\* self.strategy.evaluate(ctx) in the loop of run_streaming
strategy_evaluate(strat, ctx, clock) == strategy_call(strat, ctx, clock)

\* ------------------------------------------------------------------------
\* State
\* ------------------------------------------------------------------------

VARIABLES
    config,          \* BacktestConfig of the engine
    strategy,        \* the strategy instance: its name and its config
    fg_data,         \* input: date -> Fear & Greed value
    price_data,      \* input: date -> price
    now,             \* the wall clock, the day datetime.now() returns
    pc,              \* "idle", "running" (inside the loop of run_streaming),
                     \* "collected" (generator exhausted) or "done"
    runNo,           \* number of run() calls started on the same inputs
    dates,           \* run_streaming: the merged, sorted dates
    day,             \* run_streaming: index in dates of the next date
    mock,            \* run_streaming: the MockAdapter of the run
    open_positions,  \* run_streaming: the ledger
    total_invested,  \* run_streaming: running total invested
    ticks,           \* the BacktestTicks yielded so far in this run
    calls,           \* calls the engine made during the last loop iteration
    firstTicks,      \* the ticks of the first run, kept for comparison
    result,          \* Some(BacktestResult) once run() returned
    built,           \* SpecConfig: how the strategy was constructed
    evaluated,       \* SpecConfig: evaluate calls made on the strategy
    lastCall,        \* SpecMock: the last call made on the adapter
    lastFill,        \* SpecMock: Some(OrderResult) of the last order
    ncalls,          \* SpecMock, SpecManager: number of calls made
    lastSignal,      \* SpecConfig: Some(signal) of the last evaluate call
    mathIn,          \* SpecMath: the equity curve handed to max_drawdown
    mathOut,         \* SpecMath: Some(result) once max_drawdown returned
    lastEval,        \* SpecStrategy: Some(record of the last evaluate call)
    snapshot,        \* Some(MarketContext) of the last replay day's evaluate
    exec_state,      \* SpecManager: the ExecutorState the caller holds
    state_file,      \* SpecManager: Some(contents of the state file)
    agent,           \* SpecAgent: the FearProtocolAgent
    lastRun          \* SpecAgent: Some(record of the last run_once call)

vars == << config, strategy, fg_data, price_data, now, pc, runNo, dates, day,
           mock, open_positions, total_invested, ticks, calls, firstTicks,
           result, built, evaluated, lastCall, lastFill, ncalls,
           lastSignal, mathIn, mathOut, lastEval, snapshot, prec,
           exec_state, state_file, agent, lastRun >>

engineVars == << pc, runNo, dates, day, open_positions, total_invested, ticks,
                 calls, firstTicks, result >>
inputVars == << config, fg_data, price_data, prec >>
configVars == << built, evaluated, lastSignal >>
mockVars == << lastCall, lastFill, ncalls >>
mathVars == << mathIn, mathOut >>
stratVars == << lastEval, snapshot >>
managerVars == << exec_state, state_file >>
agentVars == << agent, lastRun >>

Dates == 1 .. MaxDate

\* the values the inputs are drawn from
FearGreedValues == {10, 60}
PriceValues == {R(2), R(4)}
CapitalValues == {R(8), R(20)}

\* a series over Dates with at most one date missing (missing = 0: none)
Series(values) ==
    UNION { [ (Dates \ {missing}) -> values ] : missing \in 0 .. MaxDate }

\* the rates and the strategy parameters of the replays
ReplayFeeRate == Frac(1, 5)
ReplaySlippageRate == Frac(1, 4)
ReplayStrategy ==
    [ buy_threshold |-> DefaultBuyThreshold,
      sell_threshold |-> DefaultSellThreshold,
      hold_days |-> MaxDate - 1,
      dca_amount_usd |-> R(5),
      max_capital_usd |-> R(10) ]

IdleMock == MockAdapterInit(Zero, Zero, Zero, Zero, Zero)

\* ------------------------------------------------------------------------
\* BacktestEngine (backtest/engine.py)
\* ------------------------------------------------------------------------

\* the range filter with an exclusive end date
_load_data_from_dicts_ExclusiveEnd(cfg, data) ==
    [ d \in { k \in DOMAIN data : cfg.start_date <= k /\ k < cfg.end_date }
        |-> data[d] ]

\* BacktestEngine._load_data_from_dicts: the series restricted to the range
_load_data_from_dicts(cfg, data) ==
    [ d \in { k \in DOMAIN data : cfg.start_date <= k /\ k <= cfg.end_date }
        |-> data[d] ]

SetMin(S) == CHOOSE x \in S : \A y \in S : x <= y

\* sorted(S)
RECURSIVE sorted(_)
sorted(S) == IF S = {} THEN <<>> ELSE <<SetMin(S)>> \o sorted(S \ {SetMin(S)})

\* run_streaming: dates = sorted(set(fg_hist) & set(price_hist))
MergedDates(cfg, fg, prices) ==
    sorted(DOMAIN _load_data_from_dicts(cfg, fg)
             \cap DOMAIN _load_data_from_dicts(cfg, prices))

\* Decimal("0.00001"), the dust floor of the SELL branch
DustFloor == Frac(1, 100000)

\* the position dict appended after a filled BUY
NewPosition(date, fill, signal, fg) ==
    [ timestamp |-> IsoTs(date),
      entry_price |-> ToFloat(fill.avg_fill_price),
      btc_qty |-> ToFloat(fill.filled_qty),
      usd_amount |-> ToFloat(signal.suggested_amount),
      fg_at_entry |-> fg,
      status |-> "open",
      mode |-> "backtest",
      exit_price |-> None,
      exit_timestamp |-> None,
      pnl_pct |-> None ]

\* the closing of a position that also zeroes its quantity
ClosePosition_ZeroQty(pos, fill, date) ==
    [ pos EXCEPT
        !.status = "closed",
        !.btc_qty = Zero,
        !.exit_price = Some(ToFloat(fill.avg_fill_price)),
        !.exit_timestamp = Some(date),
        !.pnl_pct = Some(RMul(RDiv(RSub(ToFloat(fill.avg_fill_price),
                                        pos.entry_price),
                                   pos.entry_price), R(100))) ]

\* the body of the closing loop for one position
ClosePosition(pos, fill, date) ==
    [ pos EXCEPT
        !.status = "closed",
        !.exit_price = Some(ToFloat(fill.avg_fill_price)),
        !.exit_timestamp = Some(date),
        !.pnl_pct = Some(RMul(RDiv(RSub(ToFloat(fill.avg_fill_price),
                                        pos.entry_price),
                                   pos.entry_price), R(100))) ]

\* the closing loop without the test pos_qty <= remaining: every open
\* position is closed while something remains
RECURSIVE CloseLoop_NoFitCheck(_, _, _, _, _, _)
CloseLoop_NoFitCheck(ps, i, remaining, invested, fill, date) ==
    IF i > Len(ps)
    THEN [ positions |-> ps, total_invested |-> invested ]
    ELSE IF ps[i].status # "open" \/ RLe(remaining, Zero)
         THEN CloseLoop_NoFitCheck(ps, i + 1, remaining, invested, fill, date)
         ELSE CloseLoop_NoFitCheck(
                  [ps EXCEPT ![i] = ClosePosition(ps[i], fill, date)],
                  i + 1,
                  RSub(remaining, DecimalOfStr(ps[i].btc_qty)),
                  RSub(invested, DecimalOfStr(ps[i].usd_amount)),
                  fill, date)

\* the loop "for pos in open_positions" after a filled SELL, from index i on:
\* the ledger and total_invested when the loop ends
RECURSIVE CloseLoop(_, _, _, _, _, _)
CloseLoop(ps, i, remaining, invested, fill, date) ==
    IF i > Len(ps)
    THEN [ positions |-> ps, total_invested |-> invested ]
    ELSE IF ps[i].status # "open" \/ RLe(remaining, Zero)
         THEN CloseLoop(ps, i + 1, remaining, invested, fill, date)
         ELSE LET pos_qty == DecimalOfStr(ps[i].btc_qty)
              IN  IF RLe(pos_qty, remaining)
                  THEN CloseLoop([ps EXCEPT ![i] = ClosePosition(ps[i], fill, date)],
                                 i + 1,
                                 RSub(remaining, pos_qty),
                                 RSub(invested, DecimalOfStr(ps[i].usd_amount)),
                                 fill, date)
                  ELSE [ positions |-> ps, total_invested |-> invested ]

\* the BUY branch books the order whatever its status
BuyBooked_Always(fill) == TRUE

\* the BUY branch books the order only "if fill.status == 'filled'"
BuyBooked(fill) == fill.status = "filled"

\* the SELL branch sells at most what is held: min(suggested_amount, base_held)
ClampSell_NoClamp(amount, base_held) == amount

ClampSell(amount, base_held) == RMin(amount, base_held)

\* the SELL branch submits the order only if sell_qty > Decimal("0.00001")
AboveDust(sell_qty) == RGt(sell_qty, DustFloor)

\* _fg_label: the label of a Fear & Greed value
_fg_label(fg) ==
    IF fg <= 20 THEN "Extreme Fear"
    ELSE IF fg <= 40 THEN "Fear"
    ELSE IF fg <= 60 THEN "Neutral"
    ELSE IF fg <= 80 THEN "Greed"
    ELSE "Extreme Greed"

\* the portfolio value the engine computes from the balances
PortfolioValue(m, price) ==
    DAdd(get_balances(m).USDT, DMul(get_balances(m).BTC, price))

\* the MarketContext built before the day's price reaches the fill
\* simulator: the portfolio is valued at the previous price
MarketContextOf_BeforeSetPrice(date, m0, positions, invested) ==
    LET price == _load_data_from_dicts(config, price_data)[date]
        fg == _load_data_from_dicts(config, fg_data)[date]
    IN  [ timestamp |-> date,
          fear_greed |-> fg,
          fear_greed_label |-> _fg_label(fg),
          price |-> price,
          portfolio_value |-> PortfolioValue(m0, m0.price),
          total_invested |-> invested,
          open_positions |-> positions ]

\* the MarketContext run_streaming builds for the given date
MarketContextOf(date, m0, positions, invested) ==
    LET price == _load_data_from_dicts(config, price_data)[date]
        fg == _load_data_from_dicts(config, fg_data)[date]
        m1 == set_price(m0, price)
    IN  [ timestamp |-> date,
          fear_greed |-> fg,
          fear_greed_label |-> _fg_label(fg),
          price |-> price,
          portfolio_value |-> PortfolioValue(m1, price),
          total_invested |-> invested,
          open_positions |-> positions ]

\* one iteration of the loop of run_streaming for the given date: the state
\* of the run after it and the tick it yields; call is the outcome of
\* self.strategy.evaluate(ctx)
LoopBody(date, m0, positions, invested, call) ==
    LET price == _load_data_from_dicts(config, price_data)[date]
        fg == _load_data_from_dicts(config, fg_data)[date]
        m1 == set_price(m0, price)
        base_held == get_balances(m1).BTC
        signal == call.signal
        isBuy == signal.action = "BUY" /\ RGt(signal.suggested_amount, Zero)
        isSell == signal.action = "SELL" /\ RGt(signal.suggested_amount, Zero)
        sell_qty == ClampSell(signal.suggested_amount, base_held)
        submitSell == isSell /\ AboveDust(sell_qty)
        submitted == isBuy \/ submitSell
        \* the iteration once the order returned; order is computed once
        Rest(order) ==
            LET filled == submitted /\ order.fill.status = "filled"
                closed == CloseLoop(positions, 1, order.fill.filled_qty,
                                    invested, order.fill, date)
                m2 == order.m
            IN  [ raised |-> \/ call.raised
                             \/ submitted /\ order.fill.status = "raised",
                  strategy |-> call.self,
                  mock |-> m2,
                  open_positions |->
                      IF isBuy /\ BuyBooked(order.fill)
                      THEN Append(positions,
                                  NewPosition(date, order.fill, signal, fg))
                      ELSE IF submitSell /\ filled THEN closed.positions
                      ELSE positions,
                  total_invested |->
                      IF isBuy /\ BuyBooked(order.fill)
                      THEN RAdd(invested, signal.suggested_amount)
                      ELSE IF submitSell /\ filled THEN closed.total_invested
                      ELSE invested,
                  calls |-> <<"set_price", "get_balances", "evaluate">>
                            \o (IF isBuy THEN <<"market_buy">>
                                ELSE IF submitSell THEN <<"market_sell">>
                                ELSE <<>>)
                            \o <<"get_balances", "yield">>,
                  tick |-> [ date |-> date,
                             price |-> price,
                             fear_greed |-> fg,
                             action |-> signal.action,
                             signal |-> signal,
                             fill |-> IF submitted THEN Some(order.fill)
                                      ELSE None,
                             portfolio_value |-> PortfolioValue(m2, price),
                             cash |-> get_balances(m2).USDT,
                             base_held |-> get_balances(m2).BTC ] ]
    IN  CHOOSE step \in
            { Rest(order) :
                  order \in { IF isBuy
                              THEN market_buy(m1, signal.suggested_amount)
                              ELSE IF submitSell THEN market_sell(m1, sell_qty)
                              ELSE [ m |-> m1, fill |-> FailedOrder ] } } :
            TRUE

\* ------------------------------------------------------------------------
\* Performance math (core/math.py) as used by _compute_result
\* ------------------------------------------------------------------------

\* A metric value.  Values the code computes with a square root or a power
\* are kept in closed form:
\*   num    : a
\*   inf    : float("inf")
\*   surd   : a / sqrt(b)
\*   ann    : (a ^ (365 / b) - 1) * 100
\*   calmar : ((a ^ (365 / b) - 1) * 100) / c
Metric(kind, a, b, c) == [ kind |-> kind, a |-> a, b |-> b, c |-> c ]
Num(x) == Metric("num", x, One, One)
Inf == Metric("inf", One, One, One)

Mean(s) == RDiv(RSumSeq(s), R(Len(s)))

\* statistics.stdev squared: the sample variance
Variance(s) ==
    RDiv(RSumSeq([ i \in 1 .. Len(s) |->
                       RMul(RSub(s[i], Mean(s)), RSub(s[i], Mean(s))) ]),
         R(Len(s) - 1))

\* sharpe_ratio(returns), risk_free_rate = 0
sharpe_ratio(returns) ==
    IF Len(returns) < 2 THEN Num(Zero)
    ELSE IF Variance(returns) = Zero THEN Num(Zero)
    ELSE Metric("surd", Mean(returns), Variance(returns), One)

\* sortino_ratio(returns), risk_free_rate = 0
sortino_ratio(returns) ==
    IF Len(returns) < 2 THEN Num(Zero)
    ELSE LET downside == SelectSeq(returns, LAMBDA r : RLt(r, Zero))
         IN  IF downside = <<>>
             THEN (IF RGt(Mean(returns), Zero) THEN Inf ELSE Num(Zero))
             ELSE Metric("surd", Mean(returns),
                         Mean([ i \in 1 .. Len(downside) |->
                                    RMul(downside[i], downside[i]) ]), One)

\* the result of max_drawdown: the percentage, or raised when the division
\* by the running peak raises ZeroDivisionError
Returned(x) == [ raised |-> FALSE, value |-> x ]
ZeroDivisionError == [ raised |-> TRUE, value |-> Zero ]

\* the loop of max_drawdown over the rest of the curve
RECURSIVE DrawdownLoop(_, _, _)
DrawdownLoop(curve, peak, max_dd) ==
    IF curve = <<>> THEN Returned(max_dd)
    ELSE LET value == Head(curve)
             peak2 == IF RGt(value, peak) THEN value ELSE peak
         IN  IF peak2 = Zero THEN ZeroDivisionError
             ELSE LET drawdown == RMul(RDiv(RSub(value, peak2), peak2), R(100))
                  IN  DrawdownLoop(Tail(curve), peak2,
                                   IF RLt(drawdown, max_dd) THEN drawdown
                                   ELSE max_dd)

\* max_drawdown(equity_curve)
max_drawdown(equity_curve) ==
    IF Len(equity_curve) < 2 THEN Returned(Zero)
    ELSE DrawdownLoop(equity_curve, equity_curve[1], Zero)

\* kelly_fraction: the fraction, or raised when the division by the odds
\* raises ZeroDivisionError
kelly_fraction(win_rate, avg_win, avg_loss) ==
    IF avg_loss = Zero
    THEN Returned(Zero)
    ELSE LET odds == RDiv(avg_win, avg_loss)
         IN  IF odds = Zero
             THEN ZeroDivisionError
             ELSE Returned(RMax(Zero,
                                RMin(One,
                                     RSub(win_rate,
                                          RDiv(RSub(One, win_rate), odds)))))

\* annualized_return(total_return_pct, days)
annualized_return(total_return_pct, days) ==
    LET total_factor == RAdd(One, RDiv(total_return_pct, R(100)))
    IN  IF days <= 0 THEN Num(Zero)
        ELSE IF RLe(total_factor, Zero) THEN Num(R(-100))
        ELSE IF total_factor = One THEN Num(Zero)
        ELSE Metric("ann", total_factor, R(days), One)

\* calmar_ratio(annualized_return, max_dd)
calmar_ratio(ann, max_dd) ==
    LET abs_dd == IF RLt(max_dd, Zero) THEN RSub(Zero, max_dd) ELSE max_dd
    IN  IF abs_dd = Zero THEN Num(Zero)
        ELSE IF ann.kind = "num" THEN Num(RDiv(ann.a, abs_dd))
        ELSE Metric("calmar", ann.a, ann.b, abs_dd)

\* profit_factor(wins, losses)
profit_factor(wins, losses) ==
    LET gross_profit == RSumSeq(SelectSeq(wins, LAMBDA w : RGt(w, Zero)))
        negative == SelectSeq(losses, LAMBDA l : RLt(l, Zero))
        gross_loss == RSumSeq([ i \in 1 .. Len(negative) |->
                                  RSub(Zero, negative[i]) ])
    IN  IF gross_loss = Zero
        THEN (IF RGt(gross_profit, Zero) THEN Inf ELSE Num(Zero))
        ELSE Num(RDiv(gross_profit, gross_loss))

\* round(x, 2): nearest multiple of 1/100, ties to even
Round2(x) ==
    LET t == RMul(x, R(100))
        f == RFloor(t)
        r == RSub(t, R(f))
        up == RGt(r, Frac(1, 2)) \/ (r = Frac(1, 2) /\ f % 2 = 1)
    IN  Frac(IF up THEN f + 1 ELSE f, 100)

\* ------------------------------------------------------------------------
\* BacktestEngine._compute_result
\* ------------------------------------------------------------------------

EmptyResult ==
    [ ticks |-> <<>>, trades |-> <<>>,
      total_return_pct |-> Zero, annualized_return_pct |-> Num(Zero),
      sharpe_ratio |-> Num(Zero), sortino_ratio |-> Num(Zero),
      max_drawdown_pct |-> Zero, calmar_ratio |-> Num(Zero),
      win_rate_pct |-> Zero, avg_win_pct |-> Zero, avg_loss_pct |-> Zero,
      profit_factor |-> Num(Zero), total_trades |-> 0, avg_hold_days |-> Zero,
      btc_hold_return_pct |-> Zero, alpha |-> Zero ]

\* a tick of the action that carries a fill, whatever its status
IsFilledTick_AnyFill(t, action) ==
    /\ t.action = action
    /\ t.fill # None

\* the filter of buy_fills / sell_fills: the action, a fill, status "filled"
IsFilledTick(t, action) ==
    /\ t.action = action
    /\ t.fill # None
    /\ t.fill[1].status = "filled"

\* no strategy of the repository writes "_closed_positions" into the signal
\* metadata, so the closed_positions list of _compute_result stays empty and
\* the per-sell-fill trades stand
ReduceTicks(cfg, tks) ==
    LET initial == ToFloat(cfg.initial_capital)
        final == ToFloat(tks[Len(tks)].portfolio_value)
        total_return == RMul(RDiv(RSub(final, initial), initial), R(100))
        equity == [ i \in 1 .. Len(tks) |-> ToFloat(tks[i].portfolio_value) ]
        max_dd == max_drawdown(equity).value
        buy_fills == SelectSeq(tks, LAMBDA t : IsFilledTick(t, "BUY"))
        sell_fills == SelectSeq(tks, LAMBDA t : IsFilledTick(t, "SELL"))
        avg_buy == ToFloat(RDiv(RSumSeq([ i \in 1 .. Len(buy_fills) |->
                                            buy_fills[i].fill[1].avg_fill_price ]),
                                R(Len(buy_fills))))
        Pnl(stk) == RMul(RDiv(RSub(ToFloat(stk.fill[1].avg_fill_price), avg_buy),
                              avg_buy), R(100))
        counted == IF buy_fills = <<>> THEN <<>> ELSE sell_fills
        trade_returns == [ i \in 1 .. Len(counted) |-> Pnl(counted[i]) ]
        trades == [ i \in 1 .. Len(counted) |->
                      [ sell_date |-> counted[i].date,
                        sell_price |-> ToFloat(counted[i].fill[1].avg_fill_price),
                        pnl_pct |-> Round2(Pnl(counted[i])) ] ]
        span == tks[Len(tks)].date - tks[1].date
        days == IF span > 1 THEN span ELSE 1
        ann_return == annualized_return(total_return, days)
        wins == SelectSeq(trade_returns, LAMBDA r : RGt(r, Zero))
        losses == SelectSeq(trade_returns, LAMBDA r : RLt(r, Zero))
        first_price == ToFloat(tks[1].price)
        last_price == ToFloat(tks[Len(tks)].price)
        btc_hold == RMul(RDiv(RSub(last_price, first_price), first_price), R(100))
    IN  [ ticks |-> tks,
          trades |-> trades,
          total_return_pct |-> total_return,
          annualized_return_pct |-> ann_return,
          sharpe_ratio |-> IF trade_returns # <<>> THEN sharpe_ratio(trade_returns)
                           ELSE Num(Zero),
          sortino_ratio |-> IF trade_returns # <<>> THEN sortino_ratio(trade_returns)
                            ELSE Num(Zero),
          max_drawdown_pct |-> max_dd,
          calmar_ratio |-> calmar_ratio(ann_return, max_dd),
          win_rate_pct |-> IF trade_returns # <<>>
                           THEN RMul(Frac(Len(wins), Len(trade_returns)), R(100))
                           ELSE Zero,
          avg_win_pct |-> IF wins # <<>> THEN Mean(wins) ELSE Zero,
          avg_loss_pct |-> IF losses # <<>> THEN Mean(losses) ELSE Zero,
          profit_factor |-> profit_factor(wins, losses),
          total_trades |-> Len(buy_fills),
          avg_hold_days |-> Zero,
          btc_hold_return_pct |-> btc_hold,
          alpha |-> RSub(total_return, btc_hold) ]

\* _compute_result without the early return for an empty tick list: the
\* final value defaults to 0 and the return to -100
_compute_result_NoEmptyGuard(cfg, tks) ==
    IF tks = <<>>
    THEN [ EmptyResult EXCEPT !.total_return_pct = R(-100), !.alpha = R(-100) ]
    ELSE ReduceTicks(cfg, tks)

\* BacktestEngine._compute_result
_compute_result(cfg, tks) ==
    IF tks = <<>> THEN EmptyResult ELSE ReduceTicks(cfg, tks)

\* ------------------------------------------------------------------------
\* Actions of the replay
\* ------------------------------------------------------------------------

\* run() is called: run_streaming starts, loads the data and merges the dates
StartRun ==
    /\ pc \in {"idle", "done"}
    /\ runNo < 2
    /\ LET ds == MergedDates(config, fg_data, price_data)
       IN  /\ dates' = ds
           /\ pc' = IF ds = <<>> THEN "collected" ELSE "running"
           /\ mock' = IF ds = <<>> THEN mock
                      ELSE MockAdapterInit(
                               _load_data_from_dicts(config, price_data)[ds[1]],
                               config.fee_rate, config.slippage_rate,
                               config.initial_capital, Zero)
    /\ runNo' = runNo + 1
    /\ day' = 1
    /\ open_positions' = <<>>
    /\ total_invested' = Zero
    /\ firstTicks' = IF runNo = 1 THEN ticks ELSE firstTicks
    /\ ticks' = <<>>
    /\ calls' = <<>>
    /\ result' = None
    /\ snapshot' = None
    /\ UNCHANGED << inputVars, managerVars, agentVars, strategy, now, configVars, mockVars, mathVars,
                    lastEval >>

\* one iteration of "for date in dates"; the iteration is computed once and
\* its outcome bound to step
RunDay ==
    /\ pc = "running"
    /\ \E ctx \in { MarketContextOf(dates[day], mock, open_positions,
                                      total_invested) } :
       \E call \in { strategy_evaluate(strategy, ctx, now) } :
       \E step \in { LoopBody(dates[day], mock, open_positions,
                                total_invested, call) } :
           /\ ~step.raised
           /\ snapshot' = Some(ctx)
           /\ strategy' = step.strategy
           /\ mock' = step.mock
           /\ open_positions' = step.open_positions
           /\ total_invested' = step.total_invested
           /\ ticks' = Append(ticks, step.tick)
           /\ calls' = step.calls
    /\ day' = day + 1
    /\ pc' = IF day = Len(dates) THEN "collected" ELSE "running"
    /\ UNCHANGED << inputVars, managerVars, agentVars, now, runNo, dates, firstTicks, result,
                    configVars, mockVars, mathVars, lastEval >>

\* run(): the generator is exhausted, _compute_result reduces the ticks
ComputeResult ==
    /\ pc = "collected"
    /\ result' = Some(_compute_result(config, ticks))
    /\ pc' = "done"
    /\ UNCHANGED << inputVars, managerVars, agentVars, strategy, now, runNo, dates, day, mock,
                    open_positions, total_invested, ticks, calls, firstTicks,
                    configVars, mockVars, mathVars,
                    stratVars >>

\* the wall clock advances by a day
ClockTick ==
    /\ now < MaxDate + ClockSlack
    /\ now' = now + 1
    /\ UNCHANGED << inputVars, managerVars, agentVars, strategy, engineVars, mock, configVars, mockVars, mathVars,
                    stratVars >>

Init ==
    /\ fg_data \in Series(FearGreedValues)
    /\ price_data \in Series(PriceValues)
    /\ \E s \in {1, 2}, e \in {MaxDate - 1, MaxDate}, cap \in CapitalValues :
          config = [ start_date |-> s, end_date |-> e, initial_capital |-> cap,
                     fee_rate |-> ReplayFeeRate,
                     slippage_rate |-> ReplaySlippageRate ]
    /\ strategy = FearGreedDCAStrategy(ReplayStrategy)
    /\ now = MaxDate
    /\ pc = "idle"
    /\ runNo = 0
    /\ dates = <<>>
    /\ day = 1
    /\ mock = IdleMock
    /\ open_positions = <<>>
    /\ total_invested = Zero
    /\ ticks = <<>>
    /\ calls = <<>>
    /\ firstTicks = <<>>
    /\ result = None
    /\ built = "direct"
    /\ evaluated = 0
    /\ lastCall = [ op |-> "none", amount |-> Zero ]
    /\ lastFill = None
    /\ ncalls = 0
    /\ lastSignal = None
    /\ mathIn = <<>>
    /\ mathOut = None
    /\ lastEval = None
    /\ snapshot = None
    /\ prec = None
    /\ exec_state = None
    /\ state_file = None
    /\ agent = None
    /\ lastRun = None

Next == StartRun \/ RunDay \/ ComputeResult \/ ClockTick

Spec == Init /\ [][Next]_vars

\* ------------------------------------------------------------------------
\* The mock exchange driven directly through its public methods
\* ------------------------------------------------------------------------

MockPrices == {R(0), R(2), R(4)}
MockFeeRates == {Zero, Frac(1, 5)}
MockSlippageRates == {Zero, Frac(1, 4)}
MockQuoteAmounts == {R(0), R(5), R(20)}
MockBaseAmounts == {R(0), Frac(1, 2), R(2)}

\* the variables of the replay and of the strategy construction at rest
RestOfMock ==
    /\ fg_data = <<>>
    /\ price_data = <<>>
    /\ config = [ start_date |-> 1, end_date |-> MaxDate,
                  initial_capital |-> R(10),
                  fee_rate |-> mock.fee_rate,
                  slippage_rate |-> mock.slippage_rate ]
    /\ strategy = FearGreedDCAStrategy(FearGreedDCAConfig)
    /\ now = MaxDate
    /\ pc = "idle"
    /\ runNo = 0
    /\ dates = <<>>
    /\ day = 1
    /\ open_positions = <<>>
    /\ total_invested = Zero
    /\ ticks = <<>>
    /\ calls = <<>>
    /\ firstTicks = <<>>
    /\ result = None
    /\ built = "direct"
    /\ evaluated = 0
    /\ lastSignal = None
    /\ mathIn = <<>>
    /\ mathOut = None
    /\ lastEval = None
    /\ snapshot = None
    /\ prec = None
    /\ exec_state = None
    /\ state_file = None
    /\ agent = None
    /\ lastRun = None

InitMock ==
    /\ \E p \in MockPrices, f \in MockFeeRates, s \in MockSlippageRates,
          b \in {R(0), R(1)} :
          mock = MockAdapterInit(p, f, s, R(10), b)
    /\ lastCall = [ op |-> "none", amount |-> Zero ]
    /\ lastFill = None
    /\ ncalls = 0
    /\ RestOfMock

\* m.set_price(p)
MockSetPrice ==
    /\ ncalls < MaxCalls
    /\ \E p \in MockPrices :
          /\ mock' = set_price(mock, p)
          /\ lastCall' = [ op |-> "set_price", amount |-> p ]
    /\ lastFill' = None
    /\ ncalls' = ncalls + 1
    /\ UNCHANGED << inputVars, managerVars, agentVars, strategy, now, engineVars, configVars, mathVars,
                    stratVars >>

\* m.market_buy(q)
MockBuy ==
    /\ ncalls < MaxCalls
    /\ \E q \in MockQuoteAmounts \cup {mock.quote_balance} :
          /\ mock' = market_buy(mock, q).m
          /\ lastFill' = Some(market_buy(mock, q).fill)
          /\ lastCall' = [ op |-> "market_buy", amount |-> q ]
    /\ ncalls' = ncalls + 1
    /\ UNCHANGED << inputVars, managerVars, agentVars, strategy, now, engineVars, configVars, mathVars,
                    stratVars >>

\* m.market_sell(b)
MockSell ==
    /\ ncalls < MaxCalls
    /\ \E b \in MockBaseAmounts \cup {mock.base_balance} :
          /\ mock' = market_sell(mock, b).m
          /\ lastFill' = Some(market_sell(mock, b).fill)
          /\ lastCall' = [ op |-> "market_sell", amount |-> b ]
    /\ ncalls' = ncalls + 1
    /\ UNCHANGED << inputVars, managerVars, agentVars, strategy, now, engineVars, configVars, mathVars,
                    stratVars >>

NextMock == MockSetPrice \/ MockBuy \/ MockSell

SpecMock == InitMock /\ [][NextMock]_vars

\* ------------------------------------------------------------------------
\* Construction of the threshold strategy (fear_greed_dca.py, __init__.py)
\* ------------------------------------------------------------------------

\* params.get(key, default)
Get(params, key, default) ==
    IF key \in DOMAIN params THEN params[key] ELSE default

\* FearGreedDCAConfig(**overrides): the dataclass defaults fill the rest
FearGreedDCAConfigWith(overrides) ==
    [ buy_threshold |-> Get(overrides, "buy_threshold", DefaultBuyThreshold),
      sell_threshold |-> Get(overrides, "sell_threshold", DefaultSellThreshold),
      hold_days |-> Get(overrides, "hold_days", DefaultHoldDays),
      dca_amount_usd |-> R(Get(overrides, "dca_amount_usd", DefaultDcaAmountUsd)),
      max_capital_usd |-> R(Get(overrides, "max_capital_usd", DefaultMaxCapitalUsd)) ]

\* FearGreedDCAStrategy.from_dict
from_dict(params) ==
    FearGreedDCAStrategy(
        [ buy_threshold |-> Get(params, "buy_threshold", 20),
          sell_threshold |-> Get(params, "sell_threshold", 50),
          hold_days |-> Get(params, "hold_days", 120),
          dca_amount_usd |-> R(Get(params, "dca_amount_usd", 500)),
          max_capital_usd |-> R(Get(params, "max_capital_usd", 5000)) ])

\* the names of the registry that construct the threshold strategy
STRATEGIES == {"fear-greed-dca"}

\* get_strategy(name, params) for the threshold strategy: the instance, or
\* raised for a name that is not in the registry
get_strategy(name, params) ==
    IF name \notin STRATEGIES
    THEN [ raised |-> TRUE, strategy |-> FearGreedDCAStrategy(FearGreedDCAConfig) ]
    ELSE IF DOMAIN params # {}
         THEN [ raised |-> FALSE, strategy |-> from_dict(params) ]
         ELSE [ raised |-> FALSE,
                strategy |-> FearGreedDCAStrategy(FearGreedDCAConfig) ]

\* the parameter maps the constructors are tried with
EmptyParams == [ k \in {} |-> 0 ]
ParamChoices ==
    { EmptyParams,
      [ k \in {"buy_threshold"} |-> 60 ],
      [ k \in {"buy_threshold"} |-> 150 ],
      [ k \in {"buy_threshold"} |-> -1 ],
      [ k \in {"sell_threshold"} |-> 101 ],
      [ k \in {"hold_days"} |-> 0 ],
      [ k \in {"hold_days"} |-> 1 ],
      [ k \in {"dca_amount_usd"} |-> -100 ],
      [ k \in {"max_capital_usd"} |-> 0 ],
      [ k \in {"buy_threshold", "sell_threshold"} |->
            IF k = "buy_threshold" THEN 15 ELSE 60 ],
      [ k \in {"dca_amount_usd", "max_capital_usd"} |->
            IF k = "dca_amount_usd" THEN 1000 ELSE 2000 ] }

NoStrategy == [ name |-> "none", config |-> FearGreedDCAConfig ]

InitConfig ==
    /\ strategy = NoStrategy
    /\ built = "none"
    /\ evaluated = 0
    /\ lastSignal = None
    /\ mock = IdleMock
    /\ lastCall = [ op |-> "none", amount |-> Zero ]
    /\ lastFill = None
    /\ ncalls = 0
    /\ fg_data = <<>>
    /\ price_data = <<>>
    /\ config = [ start_date |-> 1, end_date |-> MaxDate,
                  initial_capital |-> R(10),
                  fee_rate |-> Zero, slippage_rate |-> Zero ]
    /\ now = MaxDate
    /\ pc = "idle"
    /\ runNo = 0
    /\ dates = <<>>
    /\ day = 1
    /\ open_positions = <<>>
    /\ total_invested = Zero
    /\ ticks = <<>>
    /\ calls = <<>>
    /\ firstTicks = <<>>
    /\ result = None
    /\ mathIn = <<>>
    /\ mathOut = None
    /\ lastEval = None
    /\ snapshot = None
    /\ prec = None
    /\ exec_state = None
    /\ state_file = None
    /\ agent = None
    /\ lastRun = None

ConfigFrame ==
    UNCHANGED << inputVars, managerVars, agentVars, now, engineVars, mock, mockVars, mathVars,
                    stratVars >>

\* FearGreedDCAStrategy(config=FearGreedDCAConfig(...))
BuildDirect ==
    /\ built = "none"
    /\ \E ov \in ParamChoices :
          strategy' = FearGreedDCAStrategy(FearGreedDCAConfigWith(ov))
    /\ built' = "direct"
    /\ UNCHANGED << evaluated, lastSignal >>
    /\ ConfigFrame

\* FearGreedDCAStrategy.from_dict(params)
BuildFromDict ==
    /\ built = "none"
    /\ \E params \in ParamChoices : strategy' = from_dict(params)
    /\ built' = "from_dict"
    /\ UNCHANGED << evaluated, lastSignal >>
    /\ ConfigFrame

\* get_strategy(name, params)
BuildRegistry ==
    /\ built = "none"
    /\ \E name \in {"fear-greed-dca", "nonexistent"}, params \in ParamChoices :
          LET r == get_strategy(name, params)
          IN  /\ strategy' = IF r.raised THEN strategy ELSE r.strategy
              /\ built' = IF r.raised THEN "lookup_error" ELSE "registry"
    /\ UNCHANGED << evaluated, lastSignal >>
    /\ ConfigFrame

\* strategy.validate_config(), called explicitly by a caller
ValidateConfig ==
    /\ built \in {"direct", "from_dict", "registry"}
    /\ built' = IF validate(strategy.config) THEN "validated" ELSE "invalid"
    /\ UNCHANGED << strategy, evaluated, lastSignal >>
    /\ ConfigFrame

\* strategy.evaluate(ctx) on the constructed instance
Evaluate ==
    /\ built \in {"direct", "from_dict", "registry", "validated"}
    /\ evaluated < MaxCalls
    /\ \E fg \in FearGreedValues, invested \in {R(0), R(5000)} :
          lastSignal' = Some(evaluate(strategy.config,
                                      [ timestamp |-> MaxDate,
                                        fear_greed |-> fg,
                                        fear_greed_label |-> _fg_label(fg),
                                        price |-> R(2),
                                        portfolio_value |-> R(10),
                                        total_invested |-> invested,
                                        open_positions |-> <<>> ],
                                      now))
    /\ evaluated' = evaluated + 1
    /\ UNCHANGED << strategy, built >>
    /\ ConfigFrame

NextConfig ==
    BuildDirect \/ BuildFromDict \/ BuildRegistry \/ ValidateConfig \/ Evaluate

SpecConfig == InitConfig /\ [][NextConfig]_vars

\* ------------------------------------------------------------------------
\* The replay engine driven by a scripted strategy (any signal amount)
\* ------------------------------------------------------------------------

\* the signals a script may hold for a date: amounts below, at and above the
\* dust floor, above any balance, and within the balances
ScriptSignals ==
    { ScriptedSignal("HOLD", Zero),
      ScriptedSignal("BUY", R(5)),
      ScriptedSignal("BUY", R(20)),
      ScriptedSignal("SELL", Frac(1, 200000)),
      ScriptedSignal("SELL", DustFloor),
      ScriptedSignal("SELL", Frac(1, 50000)),
      ScriptedSignal("SELL", R(5)) }

\* the price series of the scripted replays: flat, or alternating
ScriptPrices ==
    { [ d \in Dates |-> R(2) ],
      [ d \in Dates |-> IF d % 2 = 1 THEN R(2) ELSE R(4) ],
      [ d \in Dates |-> IF d % 2 = 1 THEN R(4) ELSE R(2) ] }

InitScript ==
    /\ fg_data = [ d \in Dates |-> 30 ]
    /\ price_data \in ScriptPrices
    /\ \E cap \in CapitalValues :
          config = [ start_date |-> 1, end_date |-> MaxDate,
                     initial_capital |-> cap,
                     fee_rate |-> ReplayFeeRate,
                     slippage_rate |-> ReplaySlippageRate ]
    /\ \E script \in [ Dates -> ScriptSignals ] :
          strategy = ScriptedStrategy(script)
    /\ now = MaxDate
    /\ pc = "idle"
    /\ runNo = 0
    /\ dates = <<>>
    /\ day = 1
    /\ mock = IdleMock
    /\ open_positions = <<>>
    /\ total_invested = Zero
    /\ ticks = <<>>
    /\ calls = <<>>
    /\ firstTicks = <<>>
    /\ result = None
    /\ built = "direct"
    /\ evaluated = 0
    /\ lastCall = [ op |-> "none", amount |-> Zero ]
    /\ lastFill = None
    /\ ncalls = 0
    /\ lastSignal = None
    /\ mathIn = <<>>
    /\ mathOut = None
    /\ lastEval = None
    /\ snapshot = None
    /\ prec = None
    /\ exec_state = None
    /\ state_file = None
    /\ agent = None
    /\ lastRun = None

NextScript == StartRun \/ RunDay \/ ComputeResult

SpecScript == InitScript /\ [][NextScript]_vars

\* ------------------------------------------------------------------------
\* The performance math called directly (core/math.py)
\* ------------------------------------------------------------------------

\* equity curves have at most MaxCurve points
MaxCurve == 4

\* the portfolio values a curve is drawn from
CurveValues == { R(0), R(90), R(100), R(110), R(120) }

EquityCurves == UNION { [ 1 .. n -> CurveValues ] : n \in 0 .. MaxCurve }

InitMath ==
    /\ mathIn \in EquityCurves
    /\ mathOut = None
    /\ lastEval = None
    /\ snapshot = None
    /\ prec = None
    /\ exec_state = None
    /\ state_file = None
    /\ agent = None
    /\ lastRun = None
    /\ mock = IdleMock
    /\ lastCall = [ op |-> "none", amount |-> Zero ]
    /\ lastFill = None
    /\ ncalls = 0
    /\ fg_data = <<>>
    /\ price_data = <<>>
    /\ config = [ start_date |-> 1, end_date |-> MaxDate,
                  initial_capital |-> R(10),
                  fee_rate |-> Zero, slippage_rate |-> Zero ]
    /\ strategy = FearGreedDCAStrategy(FearGreedDCAConfig)
    /\ now = MaxDate
    /\ pc = "idle"
    /\ runNo = 0
    /\ dates = <<>>
    /\ day = 1
    /\ open_positions = <<>>
    /\ total_invested = Zero
    /\ ticks = <<>>
    /\ calls = <<>>
    /\ firstTicks = <<>>
    /\ result = None
    /\ built = "direct"
    /\ evaluated = 0
    /\ lastSignal = None

\* max_drawdown(mathIn) is called and returns or raises
CallMaxDrawdown ==
    /\ mathOut = None
    /\ mathOut' = Some(max_drawdown(mathIn))
    /\ UNCHANGED << mathIn, inputVars, managerVars, agentVars, strategy, now, engineVars, mock,
                    configVars, mockVars, stratVars >>

NextMath == CallMaxDrawdown

SpecMath == InitMath /\ [][NextMath]_vars

\* ------------------------------------------------------------------------
\* kelly_fraction called directly (core/math.py)
\* ------------------------------------------------------------------------

\* the win rates and the average win / loss sizes it is called with
WinRates == { Zero, Frac(1, 4), Frac(1, 2), Frac(3, 5), Frac(99, 100), One }
AvgSizes == { Zero, Frac(1, 100), Frac(1, 10), Frac(1, 5), R(10) }

KellyInputs ==
    [ win_rate : WinRates, avg_win : AvgSizes, avg_loss : AvgSizes ]

InitKelly ==
    /\ mathIn \in KellyInputs
    /\ mathOut = None
    /\ lastEval = None
    /\ snapshot = None
    /\ prec = None
    /\ exec_state = None
    /\ state_file = None
    /\ agent = None
    /\ lastRun = None
    /\ mock = IdleMock
    /\ lastCall = [ op |-> "none", amount |-> Zero ]
    /\ lastFill = None
    /\ ncalls = 0
    /\ fg_data = <<>>
    /\ price_data = <<>>
    /\ config = [ start_date |-> 1, end_date |-> MaxDate,
                  initial_capital |-> R(10),
                  fee_rate |-> Zero, slippage_rate |-> Zero ]
    /\ strategy = FearGreedDCAStrategy(FearGreedDCAConfig)
    /\ now = MaxDate
    /\ pc = "idle"
    /\ runNo = 0
    /\ dates = <<>>
    /\ day = 1
    /\ open_positions = <<>>
    /\ total_invested = Zero
    /\ ticks = <<>>
    /\ calls = <<>>
    /\ firstTicks = <<>>
    /\ result = None
    /\ built = "direct"
    /\ evaluated = 0
    /\ lastSignal = None

\* kelly_fraction(win_rate, avg_win, avg_loss) is called and returns or raises
CallKellyFraction ==
    /\ mathOut = None
    /\ mathOut' = Some(kelly_fraction(mathIn.win_rate, mathIn.avg_win,
                                      mathIn.avg_loss))
    /\ UNCHANGED << mathIn, inputVars, managerVars, agentVars, strategy, now, engineVars, mock,
                    configVars, mockVars, stratVars >>

NextKelly == CallKellyFraction

SpecKelly == InitKelly /\ [][NextKelly]_vars

\* ------------------------------------------------------------------------
\* The three strategies called directly (strategies/*.py)
\* ------------------------------------------------------------------------

\* evaluate is called at most MaxEvals times on one strategy instance
MaxEvals == 3

\* the day datetime.now() returns during the calls, and the entry days of
\* the snapshot's positions: older than every default hold_days, and younger
EvalClock == { 200 }
EntryDays == { 10, 190 }

\* the positions of a snapshot: dicts with status, timestamp and btc_qty
\* (a dict without a quantity counts as quantity 0: p.get("btc_qty",
\* p.get("base_qty", 0)))
SnapshotPosition(status, kind, d, qty) ==
    [ status |-> status, timestamp |-> [ kind |-> kind, day |-> d ],
      btc_qty |-> qty ]

\* the ledgers of the snapshots of a fear day: empty, or one position
FearLedgers ==
    { <<>>, << SnapshotPosition("open", "iso", 10, Frac(1, 8)) >> }

\* the ledgers of the snapshots of a greed day
GreedLedgers ==
    { <<>>,
      << SnapshotPosition("open", "iso", 10, Frac(1, 8)) >>,
      << SnapshotPosition("open", "iso", 190, Frac(1, 8)) >>,
      << SnapshotPosition("open", "iso", 10, Zero) >>,
      << SnapshotPosition("closed", "iso", 10, Frac(1, 8)) >>,
      << SnapshotPosition("closed", "aware", 0, Frac(1, 8)) >>,
      << SnapshotPosition("open", "missing", 0, Frac(1, 8)) >>,
      << SnapshotPosition("open", "bad", 0, Frac(1, 8)) >>,
      << SnapshotPosition("open", "not_str", 0, Frac(1, 8)) >>,
      << SnapshotPosition("open", "aware", 0, Frac(1, 8)) >>,
      << SnapshotPosition("open", "iso", 190, Frac(1, 8)),
         SnapshotPosition("open", "iso", 10, Frac(1, 8)) >>,
      << SnapshotPosition("open", "iso", 10, Frac(1, 8)),
         SnapshotPosition("closed", "iso", 10, Frac(1, 8)),
         SnapshotPosition("open", "iso", 10, Frac(1, 4)) >>,
      << SnapshotPosition("open", "bad", 0, Frac(1, 8)),
         SnapshotPosition("open", "iso", 10, Frac(1, 4)),
         SnapshotPosition("open", "missing", 0, Frac(1, 8)) >>,
      << SnapshotPosition("open", "iso", 10, Frac(1, 8)),
         SnapshotPosition("open", "aware", 0, Frac(1, 8)) >> }

\* MarketContext values handed to evaluate: fear days and greed days
Snapshots ==
    [ timestamp : { 1 },
      fear_greed : { 0, 10, 20 },
      fear_greed_label : { "Extreme Fear" },
      price : { R(90), R(100), R(120) },
      portfolio_value : { R(10000) },
      total_invested : { R(0), R(4990), R(4995), R(5000) },
      open_positions : FearLedgers ]
    \cup
    [ timestamp : { 1 },
      fear_greed : { 60 },
      fear_greed_label : { "Greed" },
      price : { R(90), R(120) },
      portfolio_value : { R(10000) },
      total_invested : { R(0) },
      open_positions : GreedLedgers ]

\* the instances evaluate is called on, as constructed
StrategyInstances ==
    { FearGreedDCAStrategy(FearGreedDCAConfig),
      GridFearStrategy(GridFearConfig),
      MomentumDCAStrategy([ MomentumDCAConfig
                              EXCEPT !.min_consecutive_down = 1 ]) }

InitStrategy ==
    /\ strategy \in StrategyInstances
    /\ now \in EvalClock
    /\ lastEval = None
    /\ snapshot = None
    /\ prec = None
    /\ exec_state = None
    /\ state_file = None
    /\ agent = None
    /\ lastRun = None
    /\ evaluated = 0
    /\ built = "direct"
    /\ lastSignal = None
    /\ mathIn = <<>>
    /\ mathOut = None
    /\ mock = IdleMock
    /\ lastCall = [ op |-> "none", amount |-> Zero ]
    /\ lastFill = None
    /\ ncalls = 0
    /\ fg_data = <<>>
    /\ price_data = <<>>
    /\ config = [ start_date |-> 1, end_date |-> MaxDate,
                  initial_capital |-> R(10),
                  fee_rate |-> Zero, slippage_rate |-> Zero ]
    /\ pc = "idle"
    /\ runNo = 0
    /\ dates = <<>>
    /\ day = 1
    /\ open_positions = <<>>
    /\ total_invested = Zero
    /\ ticks = <<>>
    /\ calls = <<>>
    /\ firstTicks = <<>>
    /\ result = None

\* strategy.evaluate(ctx): the record of the call keeps the instance before
\* the call, the action the previous call returned, the snapshot handed in,
\* the snapshot as the call leaves it, the calls made on the fill simulator,
\* what _get_eligible_positions(ctx) gives, and what the call returned
EvaluateStrategy ==
    /\ evaluated < MaxEvals
    /\ \E ctx \in Snapshots :
         \E call \in { strategy_call(strategy, ctx, now) } :
             /\ lastEval' = Some([ before |-> strategy,
                                   prev_action |->
                                       IF lastEval = None THEN "NONE"
                                       ELSE lastEval[1].signal.action,
                                   ctx |-> ctx,
                                   prices |->
                                       Append(IF lastEval = None THEN <<>>
                                              ELSE lastEval[1].prices,
                                              ctx.price),
                                   ctx_after |->
                                       ctx_after_evaluate(strategy, ctx),
                                   adapter_calls |->
                                       adapter_calls_of_evaluate(strategy,
                                                                 ctx),
                                   clock |-> now,
                                   eligible |->
                                       get_eligible_positions_call(
                                           strategy, ctx, now),
                                   raised |-> call.raised,
                                   signal |-> call.signal ])
             /\ strategy' = call.self
    /\ evaluated' = evaluated + 1
    /\ UNCHANGED << inputVars, managerVars, agentVars, now, engineVars, mock, built, lastSignal,
                    mockVars, mathVars, snapshot >>

NextStrategy == EvaluateStrategy

SpecStrategy == InitStrategy /\ [][NextStrategy]_vars

\* ------------------------------------------------------------------------
\* The replay run twice on one engine with each strategy (SpecStateful): the
\* engine keeps the instance handed to __init__ in self.strategy
\* ------------------------------------------------------------------------

\* the strategy instances of the replays
ReplayGridFear ==
    [ GridFearConfig EXCEPT !.grid_levels = 3,
                            !.grid_spacing_pct = R(25),
                            !.base_amount_usd = R(16),
                            !.level_multiplier = R(2),
                            !.max_capital_usd = R(64),
                            !.hold_days = 1 ]
ReplayMomentumDCA ==
    [ MomentumDCAConfig EXCEPT !.min_consecutive_down = 1,
                               !.dca_amount_usd = R(16),
                               !.max_capital_usd = R(64),
                               !.hold_days = 1 ]
ReplayUnevenDCA == [ ReplayStrategy EXCEPT !.dca_amount_usd = R(6) ]
\* a dca amount with more digits than a float holds
ReplayLongDCA == [ ReplayStrategy EXCEPT !.dca_amount_usd = Frac(51, 10) ]
ReplayInstances ==
    { FearGreedDCAStrategy(ReplayStrategy),
      FearGreedDCAStrategy(ReplayUnevenDCA),
      FearGreedDCAStrategy(ReplayLongDCA),
      GridFearStrategy(ReplayGridFear),
      MomentumDCAStrategy(ReplayMomentumDCA) }

InitStateful ==
    /\ fg_data \in [ Dates -> FearGreedValues ]
    /\ price_data \in [ Dates -> PriceValues ]
    /\ config = [ start_date |-> 1, end_date |-> MaxDate,
                  initial_capital |-> R(100),
                  fee_rate |-> Zero, slippage_rate |-> Zero ]
    /\ strategy \in ReplayInstances
    /\ now = MaxDate
    /\ pc = "idle"
    /\ runNo = 0
    /\ dates = <<>>
    /\ day = 1
    /\ mock = IdleMock
    /\ open_positions = <<>>
    /\ total_invested = Zero
    /\ ticks = <<>>
    /\ calls = <<>>
    /\ firstTicks = <<>>
    /\ result = None
    /\ built = "direct"
    /\ evaluated = 0
    /\ lastCall = [ op |-> "none", amount |-> Zero ]
    /\ lastFill = None
    /\ ncalls = 0
    /\ lastSignal = None
    /\ mathIn = <<>>
    /\ mathOut = None
    /\ lastEval = None
    /\ snapshot = None
    /\ prec = None
    /\ exec_state = None
    /\ state_file = None
    /\ agent = None
    /\ lastRun = None

NextStateful == StartRun \/ RunDay \/ ComputeResult

SpecStateful == InitStateful /\ [][NextStateful]_vars

\* ------------------------------------------------------------------------
\* The scripted replay under a decimal context that rounds (SpecContext).
\* The context of the program keeps 28 significant digits; the model keeps
\* DecimalPrec, and amounts that many digits long
\* ------------------------------------------------------------------------

DecimalPrec == 3

\* the signals of the scripts: a BUY of the whole capital, a small one, and a
\* SELL of more than any holding
ContextSignals ==
    { ScriptedSignal("HOLD", Zero),
      ScriptedSignal("BUY", R(998)),
      ScriptedSignal("BUY", R(5)),
      ScriptedSignal("SELL", R(200)) }

\* flat price series
ContextPrices == { [ d \in Dates |-> R(7) ], [ d \in Dates |-> R(3) ] }

InitContext ==
    /\ fg_data = [ d \in Dates |-> 30 ]
    /\ price_data \in ContextPrices
    /\ config = [ start_date |-> 1, end_date |-> MaxDate,
                  initial_capital |-> R(998),
                  fee_rate |-> Zero, slippage_rate |-> Zero ]
    /\ \E script \in [ Dates -> ContextSignals ] :
          strategy = ScriptedStrategy(script)
    /\ prec = Some(DecimalPrec)
    /\ exec_state = None
    /\ state_file = None
    /\ agent = None
    /\ lastRun = None
    /\ now = MaxDate
    /\ pc = "idle"
    /\ runNo = 0
    /\ dates = <<>>
    /\ day = 1
    /\ mock = IdleMock
    /\ open_positions = <<>>
    /\ total_invested = Zero
    /\ ticks = <<>>
    /\ calls = <<>>
    /\ firstTicks = <<>>
    /\ result = None
    /\ built = "direct"
    /\ evaluated = 0
    /\ lastCall = [ op |-> "none", amount |-> Zero ]
    /\ lastFill = None
    /\ ncalls = 0
    /\ lastSignal = None
    /\ mathIn = <<>>
    /\ mathOut = None
    /\ lastEval = None
    /\ snapshot = None

NextContext == StartRun \/ RunDay \/ ComputeResult

SpecContext == InitContext /\ [][NextContext]_vars

\* ------------------------------------------------------------------------
\* StateManager and ExecutorState (state/manager.py, state/models.py),
\* driven call by call (SpecManager)
\* ------------------------------------------------------------------------

\* the manager is called at most MaxOps times
MaxOps == 4

\* float(a) + float(b), float(a) - float(b), a * b and a / b on floats
FAdd(a, b) == ToFloat(RAdd(a, b))
FSub(a, b) == ToFloat(RSub(a, b))
FMul(a, b) == ToFloat(RMul(a, b))
FDiv(a, b) == ToFloat(RDiv(a, b))

\* ExecutorState(): the fresh state
ExecutorState ==
    [ version |-> 3, exchange |-> "paper", strategy |-> "fear-greed-dca",
      mode |-> "paper", positions |-> <<>>, total_invested |-> Zero,
      last_action |-> None ]

\* ExecutorState.to_dict
to_dict(state) ==
    [ version |-> state.version, exchange |-> state.exchange,
      strategy |-> state.strategy, mode |-> state.mode,
      positions |-> state.positions,
      total_invested |-> state.total_invested,
      last_action |-> state.last_action ]

\* ExecutorState.from_dict followed by the three assignments of load
from_dict_state(data) ==
    [ version |-> data.version, exchange |-> "paper",
      strategy |-> "fear-greed-dca", mode |-> "paper",
      positions |-> data.positions,
      total_invested |-> ToFloat(data.total_invested),
      last_action |-> data.last_action ]

\* StateManager.load: the file's state, or a fresh one
load(file) ==
    IF file # None THEN from_dict_state(file[1]) ELSE ExecutorState

\* StateManager.add_position up to the save
add_position(state, position) ==
    [ state EXCEPT
        !.positions = Append(@, position),
        !.total_invested =
            FAdd(@, ToFloat(Get(position, "usd_amount", Zero))) ]

\* the body of the loop of close_positions that closes a position whatever
\* its status, for index i (0-based, negative from the end)
CloseAt(state, i, exit_price, exit_timestamp) ==
    LET k == IF i < 0 THEN Len(state.positions) + i + 1 ELSE i + 1
        pos == state.positions[k]
        entry_price == Get(pos, "entry_price", exit_price)
        marked == [ pos EXCEPT !.status = "closed",
                               !.exit_price = Some(exit_price),
                               !.exit_timestamp = Some(exit_timestamp) ]
    IN  IF k < 1 \/ k > Len(state.positions)
        THEN [ raised |-> "IndexError", state |-> state ]
        ELSE IF entry_price = Zero
        THEN [ raised |-> "ZeroDivisionError",
               state |-> [ state EXCEPT !.positions[k] = marked ] ]
        ELSE [ raised |-> "no",
               state |->
                   [ state EXCEPT
                       !.positions[k] =
                           [ marked EXCEPT
                               !.pnl_pct =
                                   Some(FMul(FDiv(FSub(exit_price, entry_price),
                                                  entry_price), R(100))) ],
                       !.total_invested =
                           FSub(@, ToFloat(Get(pos, "usd_amount", Zero))) ] ]

\* StateManager.close_positions up to the save: the loop over
\* position_indices from the n-th index on
RECURSIVE close_positions(_, _, _, _, _)
close_positions(state, position_indices, n, exit_price, exit_timestamp) ==
    IF n > Len(position_indices)
    THEN [ raised |-> "no", state |-> state ]
    ELSE LET step == CloseAt(state, position_indices[n], exit_price,
                             exit_timestamp)
         IN  IF step.raised # "no" THEN step
             ELSE close_positions(step.state, position_indices, n + 1,
                                  exit_price, exit_timestamp)

\* the position dicts handed to add_position: as the executor writes them,
\* one with entry price 0, and one without a quote amount
ManagerPosition(entry_price, usd_amount) ==
    [ timestamp |-> IsoTs(1), entry_price |-> entry_price,
      usd_amount |-> usd_amount, status |-> "open",
      exit_price |-> None, exit_timestamp |-> None, pnl_pct |-> None ]
ManagerPositions ==
    { ManagerPosition(R(2), R(5)),
      ManagerPosition(R(4), R(10)),
      ManagerPosition(Zero, R(5)),
      [ timestamp |-> IsoTs(1), entry_price |-> R(2), status |-> "open",
        exit_price |-> None, exit_timestamp |-> None, pnl_pct |-> None ] }

\* the index lists handed to close_positions
IndexLists == { <<0>>, <<1>>, <<0, 1>>, <<0, 0>>, <<-1>>, <<2>> }

\* a manager on an empty state directory, no state loaded yet
InitManager ==
    /\ ncalls = 0
    /\ mock = IdleMock
    /\ lastCall = [ op |-> "none", amount |-> Zero ]
    /\ lastFill = None
    /\ RestOfMock

\* state = mgr.load()
Load ==
    /\ ncalls < MaxOps
    /\ exec_state' = Some([ state |-> load(state_file), returned |-> TRUE ])
    /\ ncalls' = ncalls + 1
    /\ UNCHANGED << inputVars, strategy, now, engineVars, mock, configVars,
                    lastCall, lastFill, mathVars, stratVars, state_file,
                    agentVars >>

\* state = mgr.add_position(state, position)
AddPosition ==
    /\ ncalls < MaxOps
    /\ exec_state # None
    /\ \E position \in ManagerPositions :
       \E state \in { add_position(exec_state[1].state, position) } :
           /\ exec_state' = Some([ state |-> state, returned |-> TRUE ])
           /\ state_file' = Some(to_dict(state))
    /\ ncalls' = ncalls + 1
    /\ UNCHANGED << inputVars, strategy, now, engineVars, mock, configVars,
                    lastCall, lastFill, mathVars, stratVars, agentVars >>

\* state = mgr.close_positions(state, position_indices, exit_price, ts); a
\* call that raises leaves the state object as the loop changed it and the
\* file as it was
ClosePositions ==
    /\ ncalls < MaxOps
    /\ exec_state # None
    /\ \E position_indices \in IndexLists :
       \E out \in { close_positions(exec_state[1].state, position_indices, 1,
                                    R(4), 2) } :
           /\ exec_state' = Some([ state |-> out.state,
                                   returned |-> out.raised = "no" ])
           /\ state_file' = IF out.raised = "no"
                            THEN Some(to_dict(out.state))
                            ELSE state_file
    /\ ncalls' = ncalls + 1
    /\ UNCHANGED << inputVars, strategy, now, engineVars, mock, configVars,
                    lastCall, lastFill, mathVars, stratVars, agentVars >>

NextManager == Load \/ AddPosition \/ ClosePositions

SpecManager == InitManager /\ [][NextManager]_vars

\* ------------------------------------------------------------------------
\* FearProtocolAgent.run_once (SpecAgent)
\* ------------------------------------------------------------------------

\* run_once is called at most MaxRuns times on an agent
MaxRuns == 2

\* the modes and exchange names an agent is constructed with; get_adapter
\* knows the names of AdapterNames and raises ValueError for any other
AgentModes == { "dry-run", "paper", "live" }
AdapterNames == { "mock", "paper", "hyperliquid" }
ExchangeNames == AdapterNames \cup { "binance" }

\* what the adapter does with the order: it returns a filled or a failed
\* OrderResult, or it raises
OrderOutcomes == { "filled", "failed", "raises" }

\* FearProtocolAgent(strategy, exchange, mode)
FearProtocolAgent(exchange, mode) ==
    [ exchange_name |-> exchange, mode |-> mode ]

\* the values of state_summary: None, or a summary of the positions
StateSummaries ==
    { None,
      Some([ total_invested |-> R(0), open_positions |-> <<>> ]),
      Some([ total_invested |-> R(500),
             open_positions |->
                 << SnapshotPosition("open", "iso", 10, Frac(1, 8)) >> ]),
      Some([ total_invested |-> R(500),
             open_positions |->
                 << SnapshotPosition("open", "not_str", 0, Frac(1, 8)) >> ]) }

\* the index and the price the providers return
ProviderIndex == { 10, 60 }
ProviderPrices == { R(90), R(100) }

\* the MarketContext run_once builds
RunContext(fg, price, state_summary, clock) ==
    LET invested == IF state_summary = None THEN Zero
                    ELSE DecimalOfStr(state_summary[1].total_invested)
    IN  [ timestamp |-> clock,
          fear_greed |-> fg,
          fear_greed_label |-> _fg_label(fg),
          price |-> price,
          portfolio_value |-> RAdd(price, invested),
          total_invested |-> invested,
          open_positions |-> IF state_summary = None THEN <<>>
                             ELSE state_summary[1].open_positions ]

\* the condition under which run_once returns before it asks for an adapter
ReturnsBeforeAdapter_HoldOnly(signal, is_dry_run) == signal.action = "HOLD"
ReturnsBeforeAdapter(signal, is_dry_run) ==
    signal.action = "HOLD" \/ is_dry_run

\* ExecuteResultSchema(...).model_dump()
ExecuteResultSchema(self, signal, success, error, dry_run) ==
    [ action |-> signal.action, success |-> success, error |-> error,
      dry_run |-> dry_run, mode |-> self.mode ]

\* run_once(state_summary), given the outcome of self._strategy.evaluate(ctx)
\* and what the adapter does with the order: whether the call raised, what
\* it returned, and the calls it made, in order (get_adapter is listed with
\* whether it returned an adapter)
run_once(self, call, outcome) ==
    IF call.raised
    THEN [ raised |-> TRUE, result |-> None, calls |-> <<>> ]
    ELSE
    LET signal == call.signal
        is_dry_run == self.mode = "dry-run"
        order == [ op |-> IF signal.action = "BUY" THEN "market_buy"
                          ELSE "market_sell",
                   amount |-> signal.suggested_amount ]
    IN  IF ReturnsBeforeAdapter(signal, is_dry_run)
        THEN [ raised |-> FALSE,
               result |-> Some(ExecuteResultSchema(self, signal, TRUE,
                                                   None, is_dry_run)),
               calls |-> <<>> ]
        ELSE IF self.exchange_name \notin AdapterNames
        THEN [ raised |-> TRUE, result |-> None,
               calls |-> << [ op |-> "get_adapter", amount |-> Zero,
                              obtained |-> FALSE ] >> ]
        ELSE [ raised |-> FALSE,
               result |->
                   Some(ExecuteResultSchema(
                            self, signal, outcome = "filled",
                            IF outcome = "raises" THEN Some("error")
                            ELSE None,
                            FALSE)),
               calls |-> << [ op |-> "get_adapter", amount |-> Zero,
                              obtained |-> TRUE ],
                            [ op |-> order.op, amount |-> order.amount,
                              obtained |-> FALSE ],
                            [ op |-> "close", amount |-> Zero,
                              obtained |-> FALSE ] >> ]

InitAgent ==
    /\ agent \in { Some(FearProtocolAgent(e, md)) :
                       e \in ExchangeNames, md \in AgentModes }
    /\ strategy \in StrategyInstances
    /\ now \in EvalClock
    /\ lastRun = None
    /\ lastEval = None
    /\ snapshot = None
    /\ prec = None
    /\ exec_state = None
    /\ state_file = None
    /\ evaluated = 0
    /\ built = "direct"
    /\ lastSignal = None
    /\ mathIn = <<>>
    /\ mathOut = None
    /\ mock = IdleMock
    /\ lastCall = [ op |-> "none", amount |-> Zero ]
    /\ lastFill = None
    /\ ncalls = 0
    /\ fg_data = <<>>
    /\ price_data = <<>>
    /\ config = [ start_date |-> 1, end_date |-> MaxDate,
                  initial_capital |-> R(10),
                  fee_rate |-> Zero, slippage_rate |-> Zero ]
    /\ pc = "idle"
    /\ runNo = 0
    /\ dates = <<>>
    /\ day = 1
    /\ open_positions = <<>>
    /\ total_invested = Zero
    /\ ticks = <<>>
    /\ calls = <<>>
    /\ firstTicks = <<>>
    /\ result = None

\* agent.run_once(state_summary): the record of the call keeps the agent's
\* mode, the outcome of evaluate, and what run_once did and returned
RunOnce ==
    /\ evaluated < MaxRuns
    /\ \E fg \in ProviderIndex, price \in ProviderPrices,
          state_summary \in StateSummaries, outcome \in OrderOutcomes :
         \E call \in { strategy_call(strategy,
                                     RunContext(fg, price, state_summary,
                                                now),
                                     now) } :
           \E run \in { run_once(agent[1], call, outcome) } :
             /\ lastRun' = Some([ mode |-> agent[1].mode,
                                  evaluate_raised |-> call.raised,
                                  action |-> IF call.raised THEN "NONE"
                                             ELSE call.signal.action,
                                  outcome |-> outcome,
                                  raised |-> run.raised,
                                  result |-> run.result,
                                  calls |-> run.calls ])
             /\ strategy' = call.self
    /\ evaluated' = evaluated + 1
    /\ UNCHANGED << inputVars, managerVars, agent, now, engineVars, mock,
                    built, lastSignal, mockVars, mathVars, stratVars >>

NextAgent == RunOnce

SpecAgent == InitAgent /\ [][NextAgent]_vars

\* ------------------------------------------------------------------------
\* Properties of the replay (Spec)
\* ------------------------------------------------------------------------

\* the fields of a tick that a replay must reproduce
TickView(t) ==
    [ date |-> t.date, action |-> t.action,
      amount |-> t.signal.suggested_amount, fill |-> t.fill,
      cash |-> t.cash, base_held |-> t.base_held,
      portfolio_value |-> t.portfolio_value ]

\* C1: two runs on the same series and configuration emit the same ticks,
\* whatever the wall clock reads during each run: every tick of the second
\* run equals the tick the first run emitted for that date.
C1_ReplayReproducible ==
    runNo = 2 =>
        \A i \in 1 .. Len(ticks) :
            /\ i <= Len(firstTicks)
            /\ TickView(ticks[i]) = TickView(firstTicks[i])

\* C2: the hold period is measured in replay time: a day gets a filled SELL
\* only if some open position of the ledger was entered at least hold_days
\* days before that day's date.
C2_HoldMeasuredInReplayTime ==
    [][ ( /\ Len(ticks') = Len(ticks) + 1
          /\ IsFilledTick(ticks'[Len(ticks')], "SELL") )
        => \E i \in 1 .. Len(open_positions) :
              /\ open_positions[i].status = "open"
              /\ ticks'[Len(ticks')].date - open_positions[i].timestamp.day
                     >= strategy.config.hold_days ]_vars

\* every input sentiment is at or below the buy threshold
AllFear ==
    \A d \in DOMAIN fg_data : fg_data[d] <= strategy.config.buy_threshold

\* the starting capital covers every buy the strategy can ask for
CapitalNeverLimits ==
    RGe(config.initial_capital,
        RAdd(strategy.config.max_capital_usd, strategy.config.dca_amount_usd))

\* the number of buys of dca_amount_usd after which total invested has
\* reached max_capital_usd
BuysToCap ==
    CHOOSE n \in 0 .. 100 :
        /\ RGe(RMul(R(n), strategy.config.dca_amount_usd),
               strategy.config.max_capital_usd)
        /\ \A k \in 0 .. n - 1 :
               RLt(RMul(R(k), strategy.config.dca_amount_usd),
                   strategy.config.max_capital_usd)

\* C3: with every sentiment <= buy_threshold and non-limiting capital, the
\* days before total invested reaches max_capital are filled BUYs of the DCA
\* amount and every later day is a HOLD with the max-capital reason and no
\* order; so no BUY follows the first such HOLD.
C3_BuyEveryDayUntilMaxCapital ==
    (AllFear /\ CapitalNeverLimits) =>
        \A i \in 1 .. Len(ticks) :
            IF i <= BuysToCap
            THEN /\ IsFilledTick(ticks[i], "BUY")
                 /\ ticks[i].signal.suggested_amount = strategy.config.dca_amount_usd
            ELSE /\ ticks[i].action = "HOLD"
                 /\ ticks[i].signal.reason = "max capital reached"
                 /\ ticks[i].signal.suggested_amount = Zero
                 /\ ticks[i].fill = None

\* C3 witness: a run that bought up to the cap and then held
C3_Witness ==
    /\ AllFear /\ CapitalNeverLimits
    /\ Len(ticks) > BuysToCap
    /\ ticks[Len(ticks)].action = "HOLD"
    /\ ticks[Len(ticks)].signal.reason = "max capital reached"
    /\ IsFilledTick(ticks[1], "BUY")

\* the dates that are keys of both series and lie in [start_date, end_date]
ExpectedDates ==
    { d \in DOMAIN fg_data \cap DOMAIN price_data :
          config.start_date <= d /\ d <= config.end_date }

TickDates == { ticks[i].date : i \in 1 .. Len(ticks) }

\* C4: the ticks are in strictly ascending date order, every tick is for a
\* date present in both series and inside the range, and a finished run has
\* exactly one tick for each such date.
C4_OneTickPerMergedDate ==
    /\ \A i, j \in 1 .. Len(ticks) : i < j => ticks[i].date < ticks[j].date
    /\ TickDates \subseteq ExpectedDates
    /\ pc \in {"collected", "done"} =>
          /\ TickDates = ExpectedDates
          /\ Len(ticks) = Cardinality(ExpectedDates)

\* C4 witness: a finished run whose inputs had a date missing from a series
\* and a date outside the range
C4_Witness ==
    /\ pc = "done"
    /\ Len(ticks) >= 1
    /\ DOMAIN fg_data # DOMAIN price_data
    /\ \E d \in DOMAIN fg_data \cap DOMAIN price_data : d \notin ExpectedDates
    /\ TickDates = ExpectedDates

\* C5: with no shared date inside the range run() returns a result with no
\* ticks, no trades and every metric 0; the loop body never ran, so the
\* strategy was not evaluated and no adapter was built or called.
C5_EmptyOverlapGivesZeroResult ==
    ExpectedDates = {} =>
        /\ pc # "running"
        /\ ticks = <<>>
        /\ calls = <<>>
        /\ mock = IdleMock
        /\ open_positions = <<>>
        /\ pc = "done" =>
              /\ result # None
              /\ result[1].ticks = <<>>
              /\ result[1].trades = <<>>
              /\ result[1].total_trades = 0
              /\ result[1].total_return_pct = Zero
              /\ result[1].annualized_return_pct = Num(Zero)
              /\ result[1].sharpe_ratio = Num(Zero)
              /\ result[1].sortino_ratio = Num(Zero)
              /\ result[1].max_drawdown_pct = Zero
              /\ result[1].calmar_ratio = Num(Zero)
              /\ result[1].win_rate_pct = Zero
              /\ result[1].avg_win_pct = Zero
              /\ result[1].avg_loss_pct = Zero
              /\ result[1].profit_factor = Num(Zero)
              /\ result[1].avg_hold_days = Zero
              /\ result[1].btc_hold_return_pct = Zero
              /\ result[1].alpha = Zero

\* C5 witness: run() returned on inputs that share no date in the range
C5_Witness ==
    /\ ExpectedDates = {}
    /\ DOMAIN fg_data # {} /\ DOMAIN price_data # {}
    /\ pc = "done"
    /\ result # None
    /\ result[1].total_trades = 0

\* ------------------------------------------------------------------------
\* Properties of the mock exchange (SpecMock)
\* ------------------------------------------------------------------------

\* the step is a call of op with an amount
Called(op) == ncalls' = ncalls + 1 /\ lastCall'.op = op

C7_FillInvariant ==
    lastFill # None =>
        /\ lastFill[1].status = "failed" =>
              /\ lastFill[1].filled_qty = Zero
              /\ lastFill[1].avg_fill_price = Zero
              /\ lastFill[1].fee = Zero
        /\ lastFill[1].status = "filled" =>
              /\ RGt(lastFill[1].filled_qty, Zero)
              /\ RGe(lastFill[1].fee, Zero)

\* C8 as stated: every filled buy is priced strictly above the reference
\* price and every filled sell strictly below it.
C8_SlippageStrictlyAgainstTrader ==
    (lastFill # None /\ lastFill[1].status = "filled") =>
        /\ lastCall.op = "market_buy" => RGt(lastFill[1].avg_fill_price, mock.price)
        /\ lastCall.op = "market_sell" => RLt(lastFill[1].avg_fill_price, mock.price)

\* C8 amended: a filled buy is never priced below the reference price and a
\* filled sell never above it; the fill price differs from the reference
\* price exactly when both the slippage rate and the reference price are
\* positive, and equals it otherwise.
C8_SlippageNeverFavoursTrader ==
    (lastFill # None /\ lastFill[1].status = "filled") =>
        LET strict == RGt(mock.slippage_rate, Zero) /\ RGt(mock.price, Zero)
            fp == lastFill[1].avg_fill_price
        IN  /\ lastCall.op = "market_buy" =>
                  IF strict THEN RGt(fp, mock.price) ELSE fp = mock.price
            /\ lastCall.op = "market_sell" =>
                  IF strict THEN RLt(fp, mock.price) ELSE fp = mock.price

\* C8 witness: a buy filled under a positive slippage rate and price
C8_Witness ==
    /\ lastFill # None
    /\ lastFill[1].status = "filled"
    /\ lastCall.op = "market_buy"
    /\ RGt(mock.slippage_rate, Zero)
    /\ RGt(mock.price, Zero)
    /\ RGt(lastFill[1].avg_fill_price, mock.price)

C10_InvalidConfigNeverEvaluated ==
    evaluated > 0 =>
        /\ 0 <= strategy.config.buy_threshold
        /\ strategy.config.buy_threshold <= 100
        /\ 0 <= strategy.config.sell_threshold
        /\ strategy.config.sell_threshold <= 100
        /\ strategy.config.buy_threshold < strategy.config.sell_threshold
        /\ strategy.config.hold_days >= 1
        /\ RGt(strategy.config.dca_amount_usd, Zero)
        /\ RGt(strategy.config.max_capital_usd, Zero)

\* ------------------------------------------------------------------------
\* Properties of the ledger (Spec, SpecScript)
\* ------------------------------------------------------------------------

\* the step is an iteration of the replay loop
DayStep == pc = "running" /\ Len(ticks') = Len(ticks) + 1

\* the tick the step yields
NewTick == ticks'[Len(ticks')]

\* the fill of a tick has the given status
FillIs(t, status) == t.fill # None /\ t.fill[1].status = status

\* the summed base quantity of the positions that are open in old and closed
\* in new, from index i on
RECURSIVE ClosedQty(_, _, _)
ClosedQty(old, new, i) ==
    IF i > Len(old) THEN Zero
    ELSE RAdd(IF old[i].status = "open" /\ new[i].status = "closed"
              THEN old[i].btc_qty ELSE Zero,
              ClosedQty(old, new, i + 1))

\* C11: a filled SELL closes open positions whole and in insertion order:
\* the positions closed that day are the open positions before the first
\* open position that stays open, that position's base quantity exceeds what
\* remains of the filled quantity, and the base quantity of the positions
\* closed that day never exceeds the day's filled quantity.
C11_FifoWholePositionClosing ==
    [][ (DayStep /\ NewTick.action = "SELL" /\ FillIs(NewTick, "filled"))
        => LET old == open_positions
               new == open_positions'
               filled_qty == NewTick.fill[1].filled_qty
               wasOpen == { i \in 1 .. Len(old) : old[i].status = "open" }
               closedNow == { i \in wasOpen : new[i].status = "closed" }
               closed_qty == ClosedQty(old, new, 1)
           IN  /\ Len(new) = Len(old)
               /\ RLe(closed_qty, filled_qty)
               /\ \A i \in closedNow : \A j \in wasOpen :
                      j < i => j \in closedNow
               /\ \A j \in wasOpen \ closedNow :
                      (\A k \in wasOpen : k < j => k \in closedNow)
                      => RGt(old[j].btc_qty, RSub(filled_qty, closed_qty))
               /\ \A i \in closedNow :
                      /\ new[i].exit_timestamp = Some(NewTick.date)
                      /\ new[i].btc_qty = old[i].btc_qty ]_vars

\* C11 witness: the SELL of the last day closed the first position whole and
\* left a later open position, larger than the remainder, open
C11_Witness ==
    /\ pc \in {"running", "collected"}
    /\ ticks # <<>>
    /\ ticks[Len(ticks)].action = "SELL"
    /\ FillIs(ticks[Len(ticks)], "filled")
    /\ Len(open_positions) >= 2
    /\ open_positions[1].status = "closed"
    /\ open_positions[1].exit_timestamp = Some(ticks[Len(ticks)].date)
    /\ open_positions[2].status = "open"
    /\ RGt(open_positions[2].btc_qty,
           RSub(ticks[Len(ticks)].fill[1].filled_qty, open_positions[1].btc_qty))

\* C12: within a run a ledger position is created, open, exactly when a BUY
\* fills; a closed position is never reopened, closed again or changed; and
\* the entry date, entry price, base quantity and quote amount of a
\* position never change.
C12_PositionLifecycleMonotone ==
    [][ runNo' = runNo
        => LET old == open_positions
               new == open_positions'
               buyFilled == DayStep /\ NewTick.action = "BUY"
                            /\ FillIs(NewTick, "filled")
           IN  /\ Len(new) = Len(old) + (IF buyFilled THEN 1 ELSE 0)
               /\ \A i \in 1 .. Len(old) :
                      /\ new[i].timestamp = old[i].timestamp
                      /\ new[i].entry_price = old[i].entry_price
                      /\ new[i].btc_qty = old[i].btc_qty
                      /\ new[i].usd_amount = old[i].usd_amount
                      /\ new[i].status \in {"open", "closed"}
                      /\ old[i].status = "closed" => new[i] = old[i]
               /\ buyFilled
                  => /\ new[Len(new)].status = "open"
                     /\ new[Len(new)].timestamp = IsoTs(NewTick.date)
                     /\ new[Len(new)].exit_price = None
                     /\ new[Len(new)].exit_timestamp = None
                     /\ new[Len(new)].pnl_pct = None ]_vars

\* C12 witness: a position closed on an earlier day is still closed after a
\* later BUY appended a new open position
C12_Witness ==
    /\ ticks # <<>>
    /\ Len(open_positions) >= 2
    /\ open_positions[1].status = "closed"
    /\ open_positions[1].exit_timestamp # None
    /\ open_positions[1].exit_timestamp[1] < ticks[Len(ticks)].date
    /\ open_positions[Len(open_positions)].status = "open"
    /\ open_positions[Len(open_positions)].timestamp
           = IsoTs(ticks[Len(ticks)].date)

\* C13: whatever amount the strategy signals, the engine submits a SELL for
\* at most the base balance held at that moment, so a SELL it submits is
\* never rejected for insufficient balance, and the cash and the base
\* holding of every tick are >= 0.
C13_EngineNeverOversells ==
    [][ DayStep
        => /\ (NewTick.action = "SELL" /\ NewTick.fill # None)
              => /\ NewTick.fill[1].status = "filled"
                 /\ RLe(NewTick.fill[1].filled_qty, mock.base_balance)
           /\ RGe(NewTick.cash, Zero)
           /\ RGe(NewTick.base_held, Zero)
           /\ NewTick.cash = mock'.quote_balance
           /\ NewTick.base_held = mock'.base_balance ]_vars

\* C13 witness: a SELL signalled for more than the holding was filled for
\* exactly the holding
C13_Witness ==
    /\ ticks # <<>>
    /\ ticks[Len(ticks)].action = "SELL"
    /\ FillIs(ticks[Len(ticks)], "filled")
    /\ RGt(ticks[Len(ticks)].signal.suggested_amount,
           ticks[Len(ticks)].fill[1].filled_qty)
    /\ RGt(ticks[Len(ticks)].fill[1].filled_qty, Zero)
    /\ ticks[Len(ticks)].base_held = Zero

\* the engine called the adapter's market_sell during the step
SellSubmitted == \E k \in 1 .. Len(calls') : calls'[k] = "market_sell"

\* C14: on a SELL signal the engine submits no order when the quantity
\* clamped to the holding is strictly below the dust floor of 0.00001, and
\* submits the order when the clamped quantity is 0.00001 or more.
C14_DustFloor ==
    [][ (DayStep /\ NewTick.action = "SELL"
                 /\ RGt(NewTick.signal.suggested_amount, Zero))
        => LET clamped == RMin(NewTick.signal.suggested_amount,
                               mock.base_balance)
           IN  /\ RLt(clamped, DustFloor)
                  => ~SellSubmitted /\ NewTick.fill = None
               /\ RGe(clamped, DustFloor)
                  => SellSubmitted /\ NewTick.fill # None ]_vars

CashBefore(i) == IF i = 1 THEN config.initial_capital ELSE ticks[i - 1].cash
BaseBefore(i) == IF i = 1 THEN Zero ELSE ticks[i - 1].base_held

\* C16: every simulated order error is visible on the day's tick: on a day
\* with an under-funded BUY or a dust-sized SELL the tick carries a fill
\* whose status is failed, with the reason of the error; the fill is never
\* absent.
C16_OrderErrorsVisibleAsFailedFill ==
    \A i \in 1 .. Len(ticks) :
        LET t == ticks[i]
            amount == t.signal.suggested_amount
            underFunded == /\ t.action = "BUY"
                           /\ RGt(amount, Zero)
                           /\ RGt(amount, CashBefore(i))
            dustSized == /\ t.action = "SELL"
                         /\ RGt(amount, Zero)
                         /\ RLt(RMin(amount, BaseBefore(i)), DustFloor)
        IN  (underFunded \/ dustSized)
            => /\ t.fill # None
               /\ t.fill[1].status = "failed"
               /\ t.fill[1].raw # "mock"

\* ------------------------------------------------------------------------
\* Properties of the result (Spec)
\* ------------------------------------------------------------------------

\* the positions of the ledger the engine closed during the run
ClosedPositions == SelectSeq(open_positions, LAMBDA pos : pos.status = "closed")

\* C17: the trade list of the result holds exactly one trade per position
\* the engine closed, in ledger order, each with the exit date and the
\* P&L percentage of that position.
C17_OneTradePerClosedPosition ==
    (pc = "done" /\ result # None)
    => /\ Len(result[1].trades) = Len(ClosedPositions)
       /\ \A k \in 1 .. Len(ClosedPositions) :
              k <= Len(result[1].trades)
              => /\ Some(result[1].trades[k].sell_date)
                      = ClosedPositions[k].exit_timestamp
                 /\ result[1].trades[k].pnl_pct
                      = Round2(ClosedPositions[k].pnl_pct[1])

\* C18: total_trades of the result is the number of ticks of the run whose
\* action is BUY and whose fill has status filled.
C18_TotalTradesCountsFilledBuys ==
    (pc = "done" /\ result # None)
    => result[1].total_trades
         = Cardinality({ i \in 1 .. Len(ticks) :
                           /\ ticks[i].action = "BUY"
                           /\ ticks[i].fill # None
                           /\ ticks[i].fill[1].status = "filled" })

\* C18 witness: a finished run with a filled BUY, a rejected BUY and a
\* filled SELL
C18_Witness ==
    /\ pc = "done"
    /\ result # None
    /\ result[1].total_trades >= 1
    /\ \E i \in 1 .. Len(ticks) :
          ticks[i].action = "BUY" /\ FillIs(ticks[i], "failed")
    /\ \E i \in 1 .. Len(ticks) :
          ticks[i].action = "SELL" /\ FillIs(ticks[i], "filled")

\* the positions of the ledger that are open
OpenPositions == SelectSeq(open_positions, LAMBDA pos : pos.status = "open")

\* C19: after every day of a replay the base quantities of the open
\* positions of the ledger add up to the simulator's base balance.
C19_LedgerMatchesBaseBalance ==
    (pc \in {"running", "collected", "done"} /\ ticks # <<>>)
    => SumQty(OpenPositions) = mock.base_balance

\* ------------------------------------------------------------------------
\* Properties of the performance math (SpecMath)
\* ------------------------------------------------------------------------

\* the highest value among the first i points of the curve
RECURSIVE RunningPeak(_, _)
RunningPeak(curve, i) ==
    IF i = 1 THEN curve[1] ELSE RMax(RunningPeak(curve, i - 1), curve[i])

\* (value - running peak) / running peak * 100 at point i
DrawdownAt(curve, i) ==
    RMul(RDiv(RSub(curve[i], RunningPeak(curve, i)), RunningPeak(curve, i)),
         R(100))

\* the least drawdown over all points of the curve
WorstDrawdown(curve) ==
    LET all == { DrawdownAt(curve, i) : i \in 1 .. Len(curve) }
    IN  CHOOSE x \in all : \A y \in all : RLe(x, y)

\* the curve never falls below an earlier value
NoDecline(curve) ==
    \A i \in 1 .. Len(curve) : \A j \in i .. Len(curve) :
        RGe(curve[j], curve[i])

\* C20: max_drawdown returns a non-positive percentage for every equity
\* curve: 0 for fewer than two points and for a curve that never declines,
\* otherwise the minimum over all points of
\* (value - running peak) / running peak * 100.
C20_MaxDrawdownNonPositive ==
    mathOut # None
    => /\ ~mathOut[1].raised
       /\ RLe(mathOut[1].value, Zero)
       /\ Len(mathIn) < 2 => mathOut[1].value = Zero
       /\ NoDecline(mathIn) => mathOut[1].value = Zero
       /\ Len(mathIn) >= 2 => mathOut[1].value = WorstDrawdown(mathIn)

\* p - (1 - p) / (avg_win / avg_loss), clamped to [0,1]
KellyFormula(in) ==
    RMax(Zero,
         RMin(One,
              RSub(in.win_rate,
                   RDiv(RSub(One, in.win_rate),
                        RDiv(in.avg_win, in.avg_loss)))))

\* C21: kelly_fraction returns a value in [0,1] for every win_rate in [0,1],
\* avg_win >= 0 and avg_loss >= 0, without raising: 0 when avg_loss is 0,
\* otherwise win_rate - (1 - win_rate) / (avg_win / avg_loss) clamped to
\* [0,1].
C21_KellyFractionInUnitInterval ==
    mathOut # None
    => /\ ~mathOut[1].raised
       /\ RLe(Zero, mathOut[1].value) /\ RLe(mathOut[1].value, One)
       /\ mathIn.avg_loss = Zero => mathOut[1].value = Zero
       /\ mathIn.avg_loss # Zero => mathOut[1].value = KellyFormula(mathIn)

\* ------------------------------------------------------------------------
\* Properties of the strategies (SpecStrategy, SpecStateful)
\* ------------------------------------------------------------------------

\* the last evaluate call returned a signal
Returns == lastEval # None /\ ~lastEval[1].raised

\* C22: every Signal returned by evaluate of any of the three strategies,
\* for every snapshot and every reachable internal state, has amount exactly
\* 0 when its action is HOLD and amount strictly greater than 0 when its
\* action is BUY or SELL.
C22_SignalAmountMatchesAction ==
    Returns
    => LET signal == lastEval[1].signal
       IN  /\ signal.action = "HOLD" => signal.suggested_amount = Zero
           /\ signal.action \in { "BUY", "SELL" }
                  => RGt(signal.suggested_amount, Zero)

\* C23: no mutable state crosses run boundaries: the second of two run()
\* calls in succession on the same engine object with the same input series
\* yields the same sequence of daily records as the first, for each of the
\* three strategies.
C23_SecondRunRepeatsFirst ==
    (runNo = 2 /\ pc = "done")
    => /\ Len(ticks) = Len(firstTicks)
       /\ \A i \in 1 .. Len(ticks) : ticks[i] = firstTicks[i]

OpenAndOldEnough(strat, ctx, clock) ==
    SelectSeq(ctx.open_positions,
              LAMBDA pos : /\ pos.status = "open"
                           /\ pos.timestamp.kind \in { "iso", "aware" }
                           /\ clock - pos.timestamp.day
                                  >= strat.config.hold_days)

\* C25: for each of the three strategies the eligible-positions filter
\* returns exactly the snapshot positions whose status is open and whose
\* whole-day age is >= hold_days, in their original order; a position with
\* a missing or unparsable entry timestamp is excluded and never makes
\* evaluate raise, and a closed position is never eligible.
C25_EligibleFilter ==
    lastEval # None
    => /\ ~lastEval[1].raised
       /\ ~lastEval[1].eligible.raised
       /\ lastEval[1].eligible.value
              = OpenAndOldEnough(lastEval[1].before, lastEval[1].ctx,
                                 lastEval[1].clock)
       /\ \A i \in 1 .. Len(lastEval[1].eligible.value) :
              lastEval[1].eligible.value[i].status = "open"

\* the last call was made on an instance of the named strategy
CallOn(name) == lastEval # None /\ lastEval[1].before.name = name

\* C26: when sentiment >= sell_threshold and at least one position is
\* eligible, Threshold DCA returns SELL whose amount is the sum of the base
\* quantities of exactly the eligible positions; when no position is
\* eligible it returns HOLD.
C26_SellAmountIsEligibleSum ==
    (/\ CallOn("fear-greed-dca")
     /\ lastEval[1].ctx.fear_greed >= lastEval[1].before.config.sell_threshold)
    => LET eligible == OpenAndOldEnough(lastEval[1].before, lastEval[1].ctx,
                                        lastEval[1].clock)
       IN  /\ Returns
           /\ eligible # <<>>
                  => /\ lastEval[1].signal.action = "SELL"
                     /\ lastEval[1].signal.suggested_amount = SumQty(eligible)
           /\ eligible = <<>> => lastEval[1].signal.action = "HOLD"

\* C27: the confidence of a Threshold DCA BUY signal is linear in sentiment
\* over 0..buy_threshold: 0.5 at sentiment = buy_threshold, 1.0 at
\* sentiment = 0, and 0.5 + 0.5 * (buy_threshold - sentiment) / buy_threshold
\* in between (0.75 at sentiment 10 with buy_threshold 20).
C27_BuyConfidenceLinear ==
    (/\ CallOn("fear-greed-dca")
     /\ Returns
     /\ lastEval[1].signal.action = "BUY")
    => LET buy_threshold == lastEval[1].before.config.buy_threshold
           fg == lastEval[1].ctx.fear_greed
       IN  lastEval[1].signal.confidence
               = RAdd(Frac(1, 2),
                      RMul(Frac(1, 2), Frac(buy_threshold - fg, buy_threshold)))

\* C28: Grid DCA latches its reference price at the first evaluation, since
\* construction or since the last reset, whose sentiment is <=
\* fear_threshold, to that evaluation's price; once latched, no later
\* evaluation changes the reference price until a SELL signal is issued.
C28_ReferenceLatchedOnFirstFear ==
    CallOn("grid-fear")
    => /\ (/\ lastEval[1].before._reference_price = None
           /\ lastEval[1].ctx.fear_greed
                  <= lastEval[1].before.config.fear_threshold)
              => strategy._reference_price = Some(lastEval[1].ctx.price)
       /\ (/\ lastEval[1].before._reference_price # None
           /\ lastEval[1].signal.action # "SELL")
              => strategy._reference_price
                     = lastEval[1].before._reference_price

\* C29: whenever Grid DCA returns a SELL signal its latched reference price
\* is cleared, and the next evaluation in the fear zone latches that
\* evaluation's price as the new reference; the reference is cleared by no
\* other outcome (BUY or HOLD).
C29_SellClearsReference ==
    (CallOn("grid-fear") /\ Returns)
    => /\ lastEval[1].signal.action = "SELL"
              => strategy._reference_price = None
       /\ (/\ lastEval[1].prev_action = "SELL"
           /\ lastEval[1].ctx.fear_greed
                  <= lastEval[1].before.config.fear_threshold)
              => strategy._reference_price = Some(lastEval[1].ctx.price)
       /\ (/\ lastEval[1].signal.action \in { "BUY", "HOLD" }
           /\ lastEval[1].before._reference_price # None)
              => strategy._reference_price # None

\* C30: the grid level Grid DCA computes is an integer in 0..grid_levels-1
\* for every current price and every latched reference price, a current
\* price above the reference included, so the uncapped buy amount
\* base_amount * level_multiplier^level is never below base_amount.
C30_GridLevelInRange ==
    (CallOn("grid-fear") /\ lastEval[1].before._reference_price # None)
    => LET self == lastEval[1].before
           level == _get_grid_level(self, lastEval[1].ctx.price)
       IN  /\ level \in 0 .. self.config.grid_levels - 1
           /\ RGe(_level_amount(self, level), self.config.base_amount_usd)

\* ------------------------------------------------------------------------
\* Capital limits of the replays (SpecStateful)
\* ------------------------------------------------------------------------

\* the step is one day of a replay with the named strategy
ReplayDayOf(names) ==
    /\ strategy.name \in names
    /\ pc = "running"
    /\ Len(ticks') = Len(ticks) + 1

\* C31: in a replay with the Grid DCA strategy every BUY amount is at most
\* max_capital minus the total invested before the day, and total invested
\* is at most max_capital after every day.
C31_GridBuyWithinRemainingCapital ==
    [][ ReplayDayOf({ "grid-fear" })
        => LET signal == ticks'[Len(ticks')].signal
               max_capital == strategy.config.max_capital_usd
           IN  /\ signal.action = "BUY"
                  => RLe(signal.suggested_amount,
                         RSub(max_capital, total_invested))
               /\ RLe(total_invested', max_capital) ]_vars

\* a grid BUY that was cut down to the remaining capital and filled
C31_Witness ==
    /\ strategy.name = "grid-fear"
    /\ ticks # <<>>
    /\ LET signal == ticks[Len(ticks)].signal
       IN  /\ signal.action = "BUY"
           /\ RLt(signal.suggested_amount,
                  _level_amount(strategy, signal.metadata.grid_level))
           /\ ticks[Len(ticks)].fill # None
           /\ ticks[Len(ticks)].fill[1].status = "filled"
    /\ total_invested = strategy.config.max_capital_usd

\* C32: in a replay with the Threshold DCA or the Momentum DCA strategy
\* total invested is at most the configured max_capital on every day,
\* whatever the dca amount, one that does not divide max_capital included.
C32_FixedAmountWithinMaxCapital ==
    strategy.name \in { "fear-greed-dca", "momentum-dca" }
    => RLe(total_invested, strategy.config.max_capital_usd)

\* ------------------------------------------------------------------------
\* Grid DCA minimum order and Momentum DCA price window (SpecStrategy)
\* ------------------------------------------------------------------------

\* C33: in the fear zone with capital headroom Grid DCA returns BUY with the
\* capped amount when that amount is 10 or more, and HOLD when it is below
\* 10.
C33_GridMinimumOrderFloor ==
    ( /\ lastEval # None
      /\ lastEval[1].before.name = "grid-fear"
      /\ lastEval[1].ctx.fear_greed
             <= lastEval[1].before.config.fear_threshold
      /\ RLt(lastEval[1].ctx.total_invested,
             lastEval[1].before.config.max_capital_usd) )
    => LET ctx == lastEval[1].ctx
           latched == _set_reference_if_needed(lastEval[1].before, ctx)
           capped ==
               CapAtRemaining(
                   _level_amount(latched, _get_grid_level(latched, ctx.price)),
                   RSub(latched.config.max_capital_usd, ctx.total_invested))
       IN  IF RGe(capped, R(GridMinOrder))
           THEN /\ lastEval[1].signal.action = "BUY"
                /\ lastEval[1].signal.suggested_amount = capped
           ELSE lastEval[1].signal.action = "HOLD"

\* the smaller of two integers
Min(a, b) == IF a <= b THEN a ELSE b

\* C34: after any sequence of evaluate calls the price window of Momentum
\* DCA holds the most recent min(n, min_consecutive_down + 1) prices in
\* arrival order, the consecutive-down count it computes is
\* min(min_consecutive_down, c) with c counted on the whole price history,
\* and it returns BUY exactly when a strategy keeping the whole history
\* would.
C34_WindowMatchesFullHistory ==
    (lastEval # None /\ strategy.name = "momentum-dca")
    => LET prices == lastEval[1].prices
           n == Len(prices)
           cfg == strategy.config
           c == CountDown(prices, n)
           kept == Min(n, cfg.min_consecutive_down + 1)
       IN  /\ strategy._price_history = SubSeq(prices, n - kept + 1, n)
           /\ _count_consecutive_down(strategy)
                  = Min(cfg.min_consecutive_down, c)
           /\ lastEval[1].signal.action = "BUY"
              <=> /\ lastEval[1].ctx.fear_greed <= cfg.fear_threshold
                  /\ c >= cfg.min_consecutive_down
                  /\ RLt(lastEval[1].ctx.total_invested, cfg.max_capital_usd)

\* three calls with falling prices: the window has dropped the first price
\* and the whole history counts more falling steps than the window can
C34_Witness ==
    /\ lastEval # None
    /\ strategy.name = "momentum-dca"
    /\ Len(lastEval[1].prices) > Len(strategy._price_history)
    /\ CountDown(lastEval[1].prices, Len(lastEval[1].prices))
           > strategy.config.min_consecutive_down
    /\ lastEval[1].signal.action = "BUY"

\* C35: Momentum DCA returns BUY exactly when sentiment <= fear_threshold,
\* the consecutive-down count is >= min_consecutive_down and total invested
\* < max_capital; a price equal to or above the previous one resets the
\* count to 0 and no BUY is returned for it.
C35_MomentumBuyCondition ==
    (lastEval # None /\ strategy.name = "momentum-dca")
    => LET prices == lastEval[1].prices
           n == Len(prices)
           cfg == strategy.config
           count == _count_consecutive_down(strategy)
       IN  /\ lastEval[1].signal.action = "BUY"
              <=> /\ lastEval[1].ctx.fear_greed <= cfg.fear_threshold
                  /\ count >= cfg.min_consecutive_down
                  /\ RLt(lastEval[1].ctx.total_invested, cfg.max_capital_usd)
           /\ (n >= 2 /\ RGe(prices[n], prices[n - 1]))
              => /\ count = 0
                 /\ lastEval[1].signal.action # "BUY"

\* a fear day with capital headroom right after a BUY, whose price did not
\* fall: the count is back to 0 and the signal is HOLD
C35_Witness ==
    /\ lastEval # None
    /\ strategy.name = "momentum-dca"
    /\ lastEval[1].prev_action = "BUY"
    /\ Len(lastEval[1].prices) >= 2
    /\ RGe(lastEval[1].ctx.price,
           lastEval[1].prices[Len(lastEval[1].prices) - 1])
    /\ lastEval[1].ctx.fear_greed <= strategy.config.fear_threshold
    /\ RLt(lastEval[1].ctx.total_invested, strategy.config.max_capital_usd)
    /\ lastEval[1].signal.action = "HOLD"
    /\ lastEval[1].signal.metadata.consecutive_down = 0

\* ------------------------------------------------------------------------
\* The order of a replay day and its bookkeeping (Spec)
\* ------------------------------------------------------------------------

\* the positions in the day's call sequence of the named calls
CallsAt(names) == { k \in 1 .. Len(calls') : calls'[k] \in names }

\* C36: on each replay day the price is pushed to the fill simulator first,
\* then the strategy is evaluated exactly once, then at most one order is
\* submitted, then the tick is yielded; the snapshot handed to the strategy
\* carries the total invested, the portfolio value and the ledger as the
\* previous days left them, and the tick's cash, base holdings and portfolio
\* value are the balances after the day's fill.
C36_DayStepsInOrder ==
    [][ (pc = "running" /\ Len(ticks') = Len(ticks) + 1)
        => LET price == _load_data_from_dicts(config, price_data)[dates[day]]
               tick == ticks'[Len(ticks')]
               orders == CallsAt({ "market_buy", "market_sell" })
           IN  /\ calls'[1] = "set_price"
               /\ mock'.price = price
               /\ Cardinality(CallsAt({ "evaluate" })) = 1
               /\ Cardinality(orders) <= 1
               /\ calls'[Len(calls')] = "yield"
               /\ Cardinality(CallsAt({ "yield" })) = 1
               /\ \A e \in CallsAt({ "evaluate" }) :
                      /\ e > 1
                      /\ \A o \in orders : e < o /\ o < Len(calls')
               /\ snapshot' # None
               /\ snapshot'[1].timestamp = dates[day]
               /\ snapshot'[1].price = price
               /\ snapshot'[1].total_invested = total_invested
               /\ snapshot'[1].open_positions = open_positions
               /\ snapshot'[1].portfolio_value
                      = RAdd(get_balances(mock).USDT,
                             RMul(get_balances(mock).BTC, price))
               /\ tick.signal
                      = strategy_evaluate(strategy, snapshot'[1], now).signal
               /\ tick.cash = get_balances(mock').USDT
               /\ tick.base_held = get_balances(mock').BTC
               /\ tick.portfolio_value
                      = RAdd(tick.cash, RMul(tick.base_held, price)) ]_vars

\* a later day whose order filled: the snapshot shows the ledger, the total
\* invested and the portfolio value before the fill, the tick the balances
\* after it
C36_Witness ==
    /\ snapshot # None
    /\ Len(ticks) >= 2
    /\ ticks[Len(ticks)].fill # None
    /\ ticks[Len(ticks)].fill[1].status = "filled"
    /\ snapshot[1].open_positions # <<>>
    /\ snapshot[1].open_positions # open_positions
    /\ snapshot[1].total_invested # total_invested
    /\ snapshot[1].portfolio_value # ticks[Len(ticks)].portfolio_value
    /\ snapshot[1].price # ticks[Len(ticks) - 1].price

\* the sum of the quote amounts of the ledger positions that are open
OpenQuoteAmounts(positions) ==
    RSumSeq([ i \in 1 .. Len(positions) |->
                  IF positions[i].status = "open"
                  THEN DecimalOfStr(positions[i].usd_amount)
                  ELSE Zero ])

\* C37: after every day of a replay the running total invested equals the
\* sum of the quote amounts of the open ledger positions, and is never
\* negative.
C37_TotalInvestedIsOpenQuoteSum ==
    /\ total_invested = OpenQuoteAmounts(open_positions)
    /\ RGe(total_invested, Zero)

\* ------------------------------------------------------------------------
\* Value through a fill (SpecContext)
\* ------------------------------------------------------------------------

\* no order has filled in the ticks
NoFill(tks) ==
    \A i \in 1 .. Len(tks) :
        tks[i].fill = None \/ tks[i].fill[1].status # "filled"

\* a rate in [0, 1)
IsRate(x) == RGe(x, Zero) /\ RLt(x, One)

\* C38: with fee rate and slippage rate in [0,1), on every replay day the
\* portfolio value after the day's fill is at most the portfolio value
\* computed before the fill at the same price, with equality when no order
\* fills; a run in which no order ever fills has portfolio value equal to
\* the starting capital on every day and total_return_pct = 0.
C38_FillCreatesNoValue ==
    [][ (IsRate(config.fee_rate) /\ IsRate(config.slippage_rate))
        => /\ (pc = "running" /\ Len(ticks') = Len(ticks) + 1)
              => LET tick == ticks'[Len(ticks')]
                 IN  /\ RLe(tick.portfolio_value, snapshot'[1].portfolio_value)
                     /\ NoFill(<< tick >>)
                        => tick.portfolio_value
                               = snapshot'[1].portfolio_value
                     /\ NoFill(ticks')
                        => tick.portfolio_value = config.initial_capital
           /\ (pc = "collected" /\ pc' = "done" /\ ticks # <<>> /\ NoFill(ticks))
              => result'[1].total_return_pct = Zero ]_vars

\* ------------------------------------------------------------------------
\* The persistent state (SpecManager)
\* ------------------------------------------------------------------------

\* the sum of usd_amount over the open positions of a state
OpenUsdAmounts(state) ==
    RSumSeq([ i \in 1 .. Len(state.positions) |->
                  IF state.positions[i].status = "open"
                  THEN Get(state.positions[i], "usd_amount", Zero)
                  ELSE Zero ])

\* C39: starting from a fresh state, after any sequence of add_position and
\* close_positions calls (an index already closed or listed twice included)
\* total_invested equals the sum of usd_amount over the open positions and is
\* never negative, and the state written to disk equals the state returned.
C39_ManagerTotalIsOpenSum ==
    (exec_state # None /\ exec_state[1].returned)
    => /\ exec_state[1].state.total_invested
              = OpenUsdAmounts(exec_state[1].state)
       /\ RGe(exec_state[1].state.total_invested, Zero)
       /\ state_file # None => state_file[1] = to_dict(exec_state[1].state)

\* ------------------------------------------------------------------------
\* Properties of run_once (SpecAgent)
\* ------------------------------------------------------------------------

\* the positions of the calls of a run_once call that have the given name
RunCallsAt(names) ==
    { i \in 1 .. Len(lastRun[1].calls) : lastRun[1].calls[i].op \in names }

\* C40: in mode dry-run run_once never asks for an exchange adapter and
\* never calls market_buy or market_sell, whatever the strategy returns; in
\* every mode a HOLD signal submits no order; and whenever get_adapter
\* returned an adapter, close() is the last call run_once makes on it,
\* whether the order is filled, fails or raises.
C40_DryRunAndHoldSubmitNothing ==
    lastRun # None =>
        /\ lastRun[1].mode = "dry-run" => lastRun[1].calls = <<>>
        /\ lastRun[1].action = "HOLD"
               => RunCallsAt({ "market_buy", "market_sell" }) = {}
        /\ \A i \in RunCallsAt({ "get_adapter" }) :
               lastRun[1].calls[i].obtained
                   => /\ lastRun[1].calls[Len(lastRun[1].calls)].op = "close"
                      /\ Len(lastRun[1].calls) > i
                      /\ ~lastRun[1].raised

\* a paper run on a BUY signal whose order raised has closed its adapter and
\* returned a result without success
C40_Witness ==
    /\ lastRun # None
    /\ lastRun[1].mode = "paper"
    /\ lastRun[1].action = "BUY"
    /\ lastRun[1].outcome = "raises"
    /\ RunCallsAt({ "close" }) = { 3 }
    /\ lastRun[1].result # None
    /\ ~lastRun[1].result[1].success

====
